---- MODULE Spec2Model ----
(***************************************************************************)
(* life-tracker: the incremental fetch-and-store pipeline.                 *)
(*                                                                         *)
(* The model covers src/src/lambda_function.py (the handler and its three  *)
(* helpers), src/src/utils/db.py (the metrics table and the runs table)    *)
(* and src/src/integrations/registry.py (the name -> class dictionary).    *)
(* What an integration's constructor and fetch_data do against their       *)
(* provider is the environment: each outcome (raise, empty list, list of   *)
(* points) is drawn with \E.                                               *)
(***************************************************************************)
EXTENDS Integers, Sequences, FiniteSets, TLC

VARIABLES
    metrics_table,   \* MetricsDB.metrics_table: the set of stored items
    runs_table,      \* MetricsDB.runs_table: the set of watermark items
    integrations,    \* IntegrationRegistry._integrations, in insertion order
    now,             \* the UTC wall clock, in ticks
    pc,              \* where the handler is: idle, loop, store, update
    event,           \* the event of the running (or last) invocation
    metrics_to_run,  \* handler local: list of metric names
    users,           \* handler local: list of user ids
    mi,              \* index of the current metric in metrics_to_run
    ui,              \* index of the current user in users
    results,         \* handler local: list of per-pair results
    errors,          \* handler local: list of per-pair errors
    cur,             \* locals of the pair being stored (_store_* functions)
    response,        \* what the last invocation gave its caller
    hist,            \* history: snapshots, call log, counters
    date_range,      \* the last _get_date_range call: its arguments, clock and outcome
    lookups,         \* the get_integration calls made so far, each with its outcome
    recovery,        \* the automatic runs of one pair made so far, some of them cut short
    split,           \* the last _split_task_by_day call: the task and the list returned
    task_fetch,      \* the last ClickUp fetch_data call: what the API returned and the points made of it
    request,         \* the last read request of an integration: the provider's answers and the attempts made
    fanout           \* the last direct call of the storing step: the list it was given and the store calls it made

vars == <<metrics_table, runs_table, integrations, now, pc, event,
          metrics_to_run, users, mi, ui, results, errors, cur, response, hist,
          date_range, lookups, recovery, split, task_fetch, request, fanout>>

(***************************************************************************)
(* Bounds of the model.                                                    *)
(***************************************************************************)
MaxPairs == 2            \* (metric, user) pairs the handler takes up in one behaviour
MaxLoopPairs == 4        \* pairs of the one invocation that runs the whole product
MaxPoints == 2           \* longest list one fetch_data / store call carries
MaxTotalPoints == 2      \* data points the providers hand out in one behaviour
MaxDirectCalls == 2     \* direct MetricsDB calls (as the tests make them)
MaxFaults == 1           \* failures of a collaborator (store, provider, secret store) in one behaviour
MaxClock == 2            \* last clock tick (the clock starts at 1)
TicksPerSecond == 2      \* clock ticks in one second (stands for 10^6 microseconds)

(***************************************************************************)
(* Values.                                                                 *)
(***************************************************************************)
None == "None"                  \* Python's None (also: key absent from the event)
Absent == "<absent>"            \* no 'metric_type' key in a data point dict
BytesUser == "b'u1'"            \* a user id that is not a str (json cannot dump it)
DefaultUser == "default"
StrUsers == {"u1", "u2"}
Dates == {"2026-01-16", "2026-01-17"}
Values == {1, 2}
TaskTypes == {"work", "unknown"}
GoogleFit == "GoogleFitStepsIntegration"
OpenMeteo == "OpenMeteoWeatherIntegration"
ClickUp == "ClickUpTasksIntegration"

\* Python truthiness of an Optional[str]: None and "" are falsy.
Truthy(x) == x \notin {None, ""}

\* A str user id; DynamoDB's key schema types user_id as S and json.dumps
\* refuses bytes.
IsStr(u) == u # BytesUser

\* All sequences over S of length lo..hi.
SeqsOf(S, lo, hi) == UNION {[1..n -> S] : n \in lo..hi}

(***************************************************************************)
(* Instants and their ISO-8601 text.  datetime.isoformat() leaves the      *)
(* fraction out when it is zero; fromisoformat() reads both shapes.        *)
(***************************************************************************)
NoTime == <<>>                  \* None, or no such key, where an ISO text is expected

isoformat(t) ==
    IF t % TicksPerSecond = 0
    THEN <<t \div TicksPerSecond>>
    ELSE <<t \div TicksPerSecond, t % TicksPerSecond>>

fromisoformat(s) ==
    s[1] * TicksPerSecond + (IF Len(s) = 2 THEN s[2] ELSE 0)

(***************************************************************************)
(* utils/db.py: MetricsDB.                                                 *)
(***************************************************************************)
\* The sort key of the metrics table: f"{point['date']}#{metric_type}".
metric_date(date, metric_type) == date \o "#" \o metric_type

\* The item store_metrics builds for one point.  `t` is the clock, read for
\* the default of point.get('timestamp', ...).
metric_item(user_id, metric_type, point, t) ==
    [user_id     |-> user_id,
     metric_date |-> metric_date(point.date, metric_type),
     metric_type |-> metric_type,
     date        |-> point.date,
     value       |-> point.value,
     timestamp   |-> IF point.timestamp = NoTime THEN isoformat(t)
                     ELSE point.timestamp]

\* A put that keeps the old item of the same key next to the new one.
put_item_keeping(table, item) == table \cup {item}

\* DynamoDB put_item on the metrics table: the primary key is
\* (user_id, metric_date); an item of the same key is replaced.
put_item(table, item) ==
    {i \in table : ~(i.user_id = item.user_id /\ i.metric_date = item.metric_date)}
        \cup {item}

\* store_metrics: one put per point, in list order.
RECURSIVE store_metrics(_, _, _, _, _)
store_metrics(table, user_id, metric_type, data_points, t) ==
    IF data_points = <<>> THEN table
    ELSE store_metrics(put_item(table, metric_item(user_id, metric_type, Head(data_points), t)),
                       user_id, metric_type, Tail(data_points), t)

\* get_last_run: the item's last_run_time, or None (here NoTime, the empty
\* text) when there is no item.
get_last_run(table, user_id, metric_type) ==
    LET hit == {i \in table : i.user_id = user_id /\ i.metric_type = metric_type}
    IN  IF hit = {} THEN NoTime ELSE (CHOOSE i \in hit : TRUE).last_run_time

\* An update_last_run that writes the epoch instead of the clock.
update_last_run_epoch(table, user_id, metric_type, t) ==
    {i \in table : ~(i.user_id = user_id /\ i.metric_type = metric_type)}
        \cup {[user_id |-> user_id, metric_type |-> metric_type,
               last_run_time |-> isoformat(0)]}

\* update_last_run: put_item on the runs table, key (user_id, metric_type),
\* last_run_time = now as ISO text.  Unconditional overwrite.
update_last_run(table, user_id, metric_type, t) ==
    {i \in table : ~(i.user_id = user_id /\ i.metric_type = metric_type)}
        \cup {[user_id |-> user_id, metric_type |-> metric_type,
               last_run_time |-> isoformat(t)]}

\* get_all_users: the distinct user ids of the runs table, ['default'] when
\* there are none.  list(set(...)) fixes no order, so the result is any
\* ordering of the set: this is the set of lists the call may return.
get_all_users(table) ==
    LET us == {i.user_id : i \in table}
    IN  IF us = {} THEN {<<DefaultUser>>}
        ELSE {s \in [1..Cardinality(us) -> us] :
                \A a, b \in 1..Cardinality(us) : a # b => s[a] # s[b]}

(***************************************************************************)
(* integrations/registry.py: IntegrationRegistry.  The class-level dict is *)
(* a list of <<name, class>> in insertion order, as a Python dict keeps it.*)
(***************************************************************************)
RegistryInit == << <<"steps", GoogleFit>>, <<"weather", OpenMeteo>> >>

\* _integrations.get(metric_name): the class, or None.
lookup(reg, metric_name) ==
    LET hit == {k \in 1..Len(reg) : reg[k][1] = metric_name}
    IN  IF hit = {} THEN None ELSE reg[CHOOSE k \in hit : TRUE][2]

\* A lookup that falls back on the first registered class.
lookup_or_first(reg, metric_name) ==
    LET hit == {k \in 1..Len(reg) : reg[k][1] = metric_name}
    IN  IF hit = {} THEN reg[1][2] ELSE reg[CHOOSE k \in hit : TRUE][2]

\* get_integration: the class to construct; None stands for
\* raise ValueError(f"Unknown metric: {metric_name}").
get_integration(reg, metric_name) == lookup(reg, metric_name)

\* An integration object: its class, the user it was built for, and its
\* identity.
NoInstance == [cls |-> None, user_id |-> None, id |-> 0]

\* A construction that hands out again an object built before for the same
\* class and user.
construct_shared(integration_class, user_id, made) ==
    LET same == {k \in 1..Len(made) :
                    /\ made[k].instance.cls = integration_class
                    /\ made[k].instance.user_id = user_id}
    IN  IF same = {}
        THEN [cls |-> integration_class, user_id |-> user_id, id |-> Len(made) + 1]
        ELSE made[CHOOSE k \in same : TRUE].instance

\* Line 25, integration_class(user_id): a new object on every call; `made`
\* are the calls before this one.
construct(integration_class, user_id, made) ==
    [cls |-> integration_class, user_id |-> user_id, id |-> Len(made) + 1]

\* One call get_integration(metric_name, user_id) and its outcome: the
\* ValueError of line 22, the exception of a constructor that cannot resolve
\* its credentials (`raises`), or the object built.  `types_fail` is whether
\* the request ClickUpTasksIntegration.__init__ makes for the custom task
\* types failed: _get_custom_types (clickup.py lines 60-71) catches the
\* exception and the object is built with custom_types = {}.
get_integration_call(reg, metric_name, user_id, raises, types_fail, made) ==
    LET integration_class == get_integration(reg, metric_name)
    IN  [metric_name |-> metric_name, user_id |-> user_id, registry |-> reg,
         custom_types_failed |-> types_fail,
         outcome |-> IF integration_class = None THEN "ValueError"
                     ELSE IF raises THEN "ParameterNotFound" ELSE "instance",
         error |-> IF integration_class = None THEN "Unknown metric: " \o metric_name
                   ELSE IF raises THEN "ParameterNotFound" ELSE "",
         instance |-> IF integration_class = None \/ raises THEN NoInstance
                      ELSE construct(integration_class, user_id, made)]

\* list_metrics: list(self._integrations.keys()).
list_metrics(reg) == [k \in 1..Len(reg) |-> reg[k][1]]

\* register: cls._integrations[metric_name] = integration_class.
register(reg, metric_name, integration_class) ==
    IF lookup(reg, metric_name) = None
    THEN Append(reg, <<metric_name, integration_class>>)
    ELSE [k \in 1..Len(reg) |->
            IF reg[k][1] = metric_name THEN <<metric_name, integration_class>> ELSE reg[k]]

(***************************************************************************)
(* lambda_function.py: the pure parts.                                     *)
(***************************************************************************)
\* A check that takes no list for empty.
no_data_never(data_points) == FALSE

\* `if not data_points`: the fetch brought nothing.
no_data(data_points) == data_points = <<>>

\* A check that takes no list for one with metric types of its own.
has_dynamic_types_never(data_points) == FALSE

\* any('metric_type' in point for point in data_points)
has_dynamic_types(data_points) ==
    \E k \in 1..Len(data_points) : data_points[k].metric_type # Absent

\* A point.get that has no default.
point_type_own(point, metric) == point.metric_type

\* point.get('metric_type', metric)
point_type(point, metric) ==
    IF point.metric_type = Absent THEN metric ELSE point.metric_type

\* The `grouped` dict of _store_dynamic_metrics, as the list of its
\* (metric_type, points) entries in insertion order.
RECURSIVE group_into(_, _, _)
group_into(grouped, data_points, metric) ==
    IF data_points = <<>> THEN grouped
    ELSE LET point == Head(data_points)
             mt == point_type(point, metric)
             hit == {k \in 1..Len(grouped) : grouped[k].metric_type = mt}
             added == IF hit = {}
                      THEN Append(grouped, [metric_type |-> mt, points |-> <<point>>])
                      ELSE [k \in 1..Len(grouped) |->
                              IF k \in hit
                              THEN [grouped[k] EXCEPT !.points = Append(@, point)]
                              ELSE grouped[k]]
         IN  group_into(added, Tail(data_points), metric)

\* What the pair stores, as a list of (metric_type, points) store_metrics
\* calls: the groups on the dynamic path, the whole list under the invoked
\* metric on the single path.
store_plan(data_points, metric) ==
    IF has_dynamic_types(data_points)
    THEN group_into(<<>>, data_points, metric)
    ELSE << [metric_type |-> metric, points |-> data_points] >>

\* The loop of lines 20-26 (the single call of line 39): the store_metrics
\* calls of the plan made one after the other, none failing.
RECURSIVE store_groups(_, _, _, _)
store_groups(table, user_id, plan, t) ==
    IF plan = <<>> THEN table
    ELSE store_groups(store_metrics(table, user_id, Head(plan).metric_type,
                                    Head(plan).points, t),
                      user_id, Tail(plan), t)

\* total_stored of line 25, len(data_points) of line 45.
RECURSIVE total_stored(_)
total_stored(plan) ==
    IF plan = <<>> THEN 0 ELSE Len(Head(plan).points) + total_stored(Tail(plan))

\* A guard that lets every run move the watermark.
advances_always(start_date) == TRUE

\* A guard that lets no run move the watermark.
advances_never(start_date) == FALSE

\* `if not start_date`: the run moves the watermark.
advances_watermark(start_date) == ~Truthy(start_date)

\* An except clause that forgets the error.
record_error_dropped(errs, uid, metric, e) == errs

\* errors.append({'user_id': uid, 'metric': metric, 'error': str(e)})
record_error(errs, uid, metric, e) ==
    Append(errs, [user_id |-> uid, metric |-> metric, error |-> e])

\* A status that is 200 whatever happened.
status_code_ok(errs) == 200

\* 'statusCode': 200 if not errors else 207
status_code(errs) == IF errs = <<>> THEN 200 ELSE 207

\* json.dumps of the body: defined when every user id in it is a str.
json_dumpable(res, errs) ==
    /\ \A k \in 1..Len(res) : IsStr(res[k].user_id)
    /\ \A k \in 1..Len(errs) : IsStr(errs[k].user_id)

(***************************************************************************)
(* The environment: what a provider can answer.                            *)
(***************************************************************************)
\* The constructors that resolve credentials from the secret store (and so
\* can raise): GoogleFitStepsIntegration, ClickUpTasksIntegration.
\* OpenMeteoWeatherIntegration.__init__ only builds a session.
resolves_credentials(cls) == cls \in {GoogleFit, ClickUp}

\* The data points fetch_data of a class can return at clock t: every
\* integration stamps its points with the fetch instant; only the ClickUp
\* integration sets metric_type (its values are kept to one here).
fetch_points(cls, t) ==
    IF cls = ClickUp
    THEN [date : Dates, value : {1}, timestamp : {isoformat(t)}, metric_type : TaskTypes]
    ELSE [date : Dates, value : Values, timestamp : {isoformat(t)}, metric_type : {Absent}]

(***************************************************************************)
(* integrations/base.py: BaseIntegration._get_date_range.                  *)
(*                                                                         *)
(* A datetime is [date, tod, us, tz]: the calendar day (a day number), the *)
(* seconds since that day's midnight, the microseconds, and the UTC offset *)
(* ("naive" when it has no tzinfo).  A `since` / `until` argument is       *)
(* [kind, date, tod, us, zone]: None, the empty string, a YYYY-MM-DD text, *)
(* an ISO-8601 text with its zone suffix, or a text neither parser takes.  *)
(***************************************************************************)
UTC == "+00:00"
Naive == "naive"

\* Texts and None, in one shape.
NoneArg == [kind |-> "none", date |-> 0, tod |-> 0, us |-> 0, zone |-> ""]
EmptyText == [kind |-> "empty", date |-> 0, tod |-> 0, us |-> 0, zone |-> ""]
BadText == [kind |-> "bad", date |-> 0, tod |-> 0, us |-> 0, zone |-> ""]
DateText(d) == [kind |-> "date", date |-> d, tod |-> 0, us |-> 0, zone |-> ""]
IsoText(d, tod, us, zone) ==
    [kind |-> "iso", date |-> d, tod |-> tod, us |-> us, zone |-> zone]

\* `if until:` / `if since:` on an Optional[str].
truthy_text(s) == s.kind \notin {"none", "empty"}

\* datetime.strptime(s, '%Y-%m-%d') raises ValueError unless s is a calendar
\* date; it answers a naive datetime at midnight.
strptime_parses(s) == s.kind = "date"
strptime(s) == [date |-> s.date, tod |-> 0, us |-> 0, tz |-> Naive]

\* s.replace('Z', '+00:00') on the zone suffix.
replace_Z(zone) == IF zone = "Z" THEN UTC ELSE zone

\* datetime.fromisoformat(s.replace('Z', '+00:00')): raises ValueError on a
\* text that is no ISO-8601 instant; a text without offset gives a naive
\* datetime.
datetime_fromisoformat_parses(s) == s.kind = "iso"
datetime_fromisoformat(s) ==
    [date |-> s.date, tod |-> s.tod, us |-> s.us,
     tz |-> IF replace_Z(s.zone) = "" THEN Naive ELSE replace_Z(s.zone)]

\* datetime.now(timezone.utc).isoformat(): the text of a UTC instant.
datetime_isoformat(dt) == IsoText(dt.date, dt.tod, dt.us, dt.tz)

\* dt - timedelta(days=n)
minus_days(dt, n) == [dt EXCEPT !.date = @ - n]

\* .replace(hour=23, minute=59, second=59, tzinfo=timezone.utc)
end_of_day_utc(dt) == [dt EXCEPT !.tod = 23 * 3600 + 59 * 60 + 59, !.tz = UTC]

\* .replace(hour=0, minute=0, second=0, tzinfo=timezone.utc)
start_of_day_utc(dt) == [dt EXCEPT !.tod = 0, !.tz = UTC]

\* .replace(hour=0, minute=0, second=0, microsecond=0): tzinfo is kept.
midnight(dt) == [dt EXCEPT !.tod = 0, !.us = 0]

\* A first run that reaches back from the clock, whatever `until` is.
first_run_start_from_now(end_date, t) == minus_days(t, 7)

\* Line 47, first run: start_date = end_date - timedelta(days=7).
first_run_start(end_date, t) == minus_days(end_date, 7)

\* An incremental start that does not step back a day.
incremental_start_same_day(last_run) == midnight(last_run)

\* Line 44: (last_run - timedelta(days=1)).replace(hour=0, ..., microsecond=0).
incremental_start(last_run) == midnight(minus_days(last_run, 1))

\* Lines 28-35: the end of the window; t is datetime.now(timezone.utc).
range_end(until, t) ==
    IF truthy_text(until)
    THEN IF strptime_parses(until) THEN end_of_day_utc(strptime(until))
         ELSE datetime_fromisoformat(until)
    ELSE t

\* Lines 37-47: the start of the window.
range_start(since, end_date, t) ==
    IF truthy_text(since)
    THEN IF strptime_parses(since) THEN start_of_day_utc(strptime(since))
         ELSE incremental_start(datetime_fromisoformat(since))
    ELSE first_run_start(end_date, t)

\* _get_date_range raises ValueError when a text is neither a calendar date
\* nor an ISO-8601 instant.
get_date_range_raises(since, until) ==
    \/ truthy_text(until) /\ ~strptime_parses(until) /\ ~datetime_fromisoformat_parses(until)
    \/ truthy_text(since) /\ ~strptime_parses(since) /\ ~datetime_fromisoformat_parses(since)

\* _get_date_range(since, until) called at instant t.
get_date_range(since, until, t) ==
    IF get_date_range_raises(since, until)
    THEN [kind |-> "raised", start_date |-> t, end_date |-> t]
    ELSE [kind |-> "returned",
          start_date |-> range_start(since, range_end(until, t), t),
          end_date |-> range_end(until, t)]

\* The instants and texts the calls are made with.
RangeDays == {19, 20}
RangeTods == {0, 8 * 3600 + 30 * 60}
RangeMicros == {0, 250000}
Instants == [date : RangeDays, tod : RangeTods, us : RangeMicros, tz : {UTC}]
Zones == {"Z", UTC, "+02:00", ""}
Texts ==
    {NoneArg, EmptyText, BadText}
        \cup {DateText(d) : d \in RangeDays}
        \cup {IsoText(d, tod, us, z) : d \in RangeDays, tod \in RangeTods,
                                       us \in RangeMicros, z \in Zones}

\* No _get_date_range call was made yet.
NoRange == [since |-> NoneArg, until |-> NoneArg,
            at |-> [date |-> 0, tod |-> 0, us |-> 0, tz |-> UTC],
            result |-> [kind |-> "none",
                        start_date |-> [date |-> 0, tod |-> 0, us |-> 0, tz |-> UTC],
                        end_date |-> [date |-> 0, tod |-> 0, us |-> 0, tz |-> UTC]]]

(***************************************************************************)
(* integrations/clickup.py: ClickUpTasksIntegration.                       *)
(*                                                                         *)
(* A task is what the ClickUp API returns for one task, cut to the keys    *)
(* the integration reads: id, start_date and date_done (millisecond        *)
(* timestamps, here counted from 2026-01-17T00:00:00Z), custom_item_id and *)
(* the names of its tags.                                                  *)
(***************************************************************************)
MsPerHour == 3600 * 1000
MsPerDay == 24 * MsPerHour

\* The millisecond timestamp of day d (0 is 2026-01-17), h:m:s.ms UTC.
at_ms(d, h, m, s, ms) == d * MsPerDay + ((h * 60 + m) * 60 + s) * 1000 + ms

\* datetime.fromtimestamp(ms / 1000, tz=timezone.utc).date(), as a day number.
date_of(ms) == ms \div MsPerDay

\* A day end that is the next midnight.
day_end_midnight(current_start) == (date_of(current_start) + 1) * MsPerDay

\* current_start.replace(hour=23, minute=59, second=59, microsecond=999999)
\* as int(timestamp() * 1000) writes it: 23:59:59.999 of the same day.
day_end_ms(current_start) == date_of(current_start) * MsPerDay + (MsPerDay - 1)

\* (current_start + timedelta(days=1)).replace(hour=0, minute=0, second=0,
\* microsecond=0): the next midnight.
next_day_start(current_start) == (date_of(current_start) + 1) * MsPerDay

\* The while loop of _split_task_by_day from current_start on: one copy of
\* the task per pass, ending at the day's end or, when that is later than
\* the task's end, at the task's end.
RECURSIVE split_loop(_, _, _)
split_loop(task, current_start, end_ms) ==
    IF date_of(current_start) > date_of(end_ms) THEN <<>>
    ELSE LET day_end == IF day_end_ms(current_start) >= end_ms THEN end_ms
                        ELSE day_end_ms(current_start)
         IN  <<[task EXCEPT !.start_date = current_start, !.date_done = day_end]>>
                 \o split_loop(task, next_day_start(current_start), end_ms)

\* _split_task_by_day: the task itself when it starts and ends on one day.
split_task_by_day(task) ==
    IF date_of(task.start_date) = date_of(task.date_done) THEN <<task>>
    ELSE split_loop(task, task.start_date, task.date_done)

\* The instants tasks start and end at.
TaskInstants ==
    {at_ms(0, 10, 0, 0, 0), at_ms(0, 22, 50, 0, 0), at_ms(0, 23, 0, 0, 0),
     at_ms(0, 23, 59, 59, 999), at_ms(1, 0, 0, 0, 0), at_ms(1, 0, 0, 0, 1),
     at_ms(1, 1, 0, 0, 0), at_ms(1, 23, 59, 59, 999), at_ms(2, 0, 0, 0, 0),
     at_ms(2, 0, 10, 0, 0)}

\* The tasks _split_task_by_day is called with.
SplitTasks ==
    [id : {"t1"}, start_date : TaskInstants, date_done : TaskInstants,
     custom_item_id : {1}, tags : {{"deep"}}]

\* No _split_task_by_day call was made yet.
NoSplit ==
    [called |-> FALSE,
     task   |-> [id |-> "", start_date |-> 0, date_done |-> 0, custom_item_id |-> 0,
                 tags |-> {}],
     result |-> <<>>]

\* A str is the sequence of its characters: the names of the custom task
\* types, and the metric types made of them.
Unknown == <<"u", "n", "k", "n", "o", "w", "n">>         \* 'unknown'
UpperCase == {"D", "W"}

\* str.lower(), one character at a time.
lower_char(c) == CASE c = "D" -> "d" [] c = "W" -> "w" [] OTHER -> c
lower(name) == [k \in 1..Len(name) |-> lower_char(name[k])]

\* str.replace(' ', '_').
replace_spaces(name) == [k \in 1..Len(name) |-> IF name[k] = " " THEN "_" ELSE name[k]]

\* A metric type that is the task type as it is.
metric_type_raw(task_type) == task_type

\* task_type.lower().replace(' ', '_') (line 195).
metric_type_of(task_type) == replace_spaces(lower(task_type))

\* The characters of a str put together, as the tables' keys have them.
RECURSIVE str_of(_)
str_of(chars) == IF chars = <<>> THEN "" ELSE Head(chars) \o str_of(Tail(chars))

\* A missing (or None, or empty) start_date / date_done of a task.
NoMs == -1

\* Hours are counted in hundredths.  round(duration_ms / (1000 * 60 * 60), 2):
\* the nearest hundredth of an hour (an exact half goes to the even one).
calculate_duration_hours(start_time, end_time) ==
    LET duration_ms == end_time - start_time
        q == duration_ms \div (MsPerHour \div 100)
        r == duration_ms % (MsPerHour \div 100)
    IN  IF 2 * r > MsPerHour \div 100 THEN q + 1
        ELSE IF 2 * r < MsPerHour \div 100 THEN q
        ELSE IF q % 2 = 0 THEN q ELSE q + 1

\* self.custom_types.get(custom_item_id, 'unknown'); custom_types is a
\* function from the ids the API listed to their names.
task_type_of(custom_types, custom_item_id) ==
    IF custom_item_id \in DOMAIN custom_types THEN custom_types[custom_item_id]
    ELSE Unknown

\* strftime('%Y-%m-%d') of a task date (day 0 is 2026-01-17).
task_date_str(ms) == "2026-01-" \o ToString(17 + date_of(ms))

\* sorted(list(tags)): the tag names are ordered as in this list.
TagNames == <<"deep", "home", "late">>
sorted_tags(tags) == SelectSeq(TagNames, LAMBDA n : n \in tags)

\* Lines 146-153: the sub-events of the tasks that have both timestamps, in
\* the order fetch_data goes through them.
RECURSIVE sub_events(_)
sub_events(tasks) ==
    IF tasks = <<>> THEN <<>>
    ELSE LET task == Head(tasks)
         IN  (IF task.start_date = NoMs \/ task.date_done = NoMs THEN <<>>
              ELSE split_task_by_day(task)) \o sub_events(Tail(tasks))

\* Line 162: a sub-event is kept when its start is inside the window.
in_window(split_task, start_date, end_date) ==
    ~(split_task.start_date < start_date \/ split_task.start_date > end_date)

\* Lines 165-188 for one sub-event: its duration and tags go to the entry of
\* its (date, task type), which is made when the key is new.  grouped_data
\* is a dict: here the list of its entries in insertion order.
group_add(grouped_data, split_task, custom_types) ==
    LET date_str  == task_date_str(split_task.start_date)
        task_type == task_type_of(custom_types, split_task.custom_item_id)
        duration  == calculate_duration_hours(split_task.start_date, split_task.date_done)
        hit == {k \in 1..Len(grouped_data) :
                   grouped_data[k].date = date_str /\ grouped_data[k].task_type = task_type}
        with_key == IF hit = {}
                    THEN Append(grouped_data, [date |-> date_str, task_type |-> task_type,
                                               total_hours |-> 0, tags |-> {}])
                    ELSE grouped_data
    IN  [k \in 1..Len(with_key) |->
            IF with_key[k].date = date_str /\ with_key[k].task_type = task_type
            THEN [with_key[k] EXCEPT !.total_hours = @ + duration,
                                     !.tags = @ \cup split_task.tags]
            ELSE with_key[k]]

RECURSIVE group_tasks(_, _, _, _, _)
group_tasks(grouped_data, split_tasks, custom_types, start_date, end_date) ==
    IF split_tasks = <<>> THEN grouped_data
    ELSE group_tasks(IF in_window(Head(split_tasks), start_date, end_date)
                     THEN group_add(grouped_data, Head(split_tasks), custom_types)
                     ELSE grouped_data,
                     Tail(split_tasks), custom_types, start_date, end_date)

\* Lines 190-201: one data point per entry.  round(total_hours, 2) of a sum
\* of hundredths is that sum.
clickup_points(tasks, custom_types, start_date, end_date, t) ==
    LET grouped_data == group_tasks(<<>>, sub_events(tasks), custom_types,
                                    start_date, end_date)
    IN  [k \in 1..Len(grouped_data) |->
            [date        |-> grouped_data[k].date,
             metric_type |-> metric_type_of(grouped_data[k].task_type),
             value       |-> [hours |-> grouped_data[k].total_hours,
                              tags  |-> sorted_tags(grouped_data[k].tags)],
             timestamp   |-> isoformat(t)]]

MaxTasks == 2            \* tasks the ClickUp API returns to one fetch_data call

\* The custom task types of the team: two names that differ in case only,
\* and one with a space.
CustomTypes ==
    (1 :> <<"W", "o", "r", "k">>) @@ (2 :> <<"D", "e", "e", "p", " ", "W">>)
        @@ (4 :> <<"w", "o", "r", "k">>)

\* What self.custom_types can be: the team's types, or {} after the request
\* for them failed (line 71).
CustomTypeMaps == {CustomTypes, <<>>}

\* The tasks of the list (custom_item_id 3 is no custom type of the team).
ListTasks ==
    { [id |-> "a", start_date |-> at_ms(0, 10, 0, 0, 0), date_done |-> at_ms(0, 10, 20, 0, 0),
       custom_item_id |-> 1, tags |-> {"deep"}],
      [id |-> "b", start_date |-> at_ms(0, 11, 0, 0, 0), date_done |-> at_ms(0, 11, 20, 0, 0),
       custom_item_id |-> 1, tags |-> {"home", "deep"}],
      [id |-> "c", start_date |-> at_ms(0, 23, 0, 0, 0), date_done |-> at_ms(1, 1, 0, 0, 0),
       custom_item_id |-> 2, tags |-> {}],
      [id |-> "d", start_date |-> at_ms(0, 12, 0, 0, 0), date_done |-> at_ms(0, 13, 0, 0, 0),
       custom_item_id |-> 3, tags |-> {"late", "home"}],
      [id |-> "e", start_date |-> at_ms(0, 14, 0, 0, 0), date_done |-> at_ms(0, 14, 30, 0, 0),
       custom_item_id |-> 4, tags |-> {"home"}],
      [id |-> "f", start_date |-> at_ms(0, 15, 0, 0, 0), date_done |-> NoMs,
       custom_item_id |-> 1, tags |-> {}],
      [id |-> "g", start_date |-> at_ms(0, 22, 50, 0, 0), date_done |-> at_ms(2, 0, 10, 0, 0),
       custom_item_id |-> 1, tags |-> {"late"}] }

\* The windows _get_date_range resolved: all three days, or from day 1 on.
TaskWindows ==
    { [start_date |-> 0, end_date |-> at_ms(2, 23, 59, 59, 0)],
      [start_date |-> at_ms(1, 0, 0, 0, 0), end_date |-> at_ms(2, 23, 59, 59, 0)] }

\* No ClickUp fetch_data call was made yet.
NoFetch ==
    [called |-> FALSE, tasks |-> <<>>, custom_types |-> <<>>,
     window |-> [start_date |-> 0, end_date |-> 0], data_points |-> <<>>]

(***************************************************************************)
(* The read requests of the integrations.  An answer of the provider to    *)
(* one attempt is "ok", "connection" (no response at all) or the status    *)
(* code of an error response.                                              *)
(***************************************************************************)
MaxAnswers == 4          \* answers the provider has ready for one request

Answers == {"ok", "connection", "429", "500", "501", "404"}

\* Retry(total=3, ...) of the Open-Meteo session (open_meteo.py lines 24-31);
\* requests.get (clickup.py line 80) and execute() (google_fit.py line 70)
\* are given no retries.
total_retries(cls) == IF cls = OpenMeteo THEN 3 ELSE 0

\* What urllib3 retries a GET on: a failed connection, or a response whose
\* status is in status_forcelist=[429, 500, 502, 503, 504].
retried(cls, answer) ==
    cls = OpenMeteo /\ answer \in {"connection", "429", "500", "502", "503", "504"}

\* One request: attempt number k gets answers[k]; the request is sent again
\* while the answer is one that is retried and retries are left.  The
\* outcome is the attempts made and whether the caller got a response body
\* or an exception.
RECURSIVE send_from(_, _, _)
send_from(cls, answers, k) ==
    IF answers[k] = "ok" THEN [attempts |-> k, outcome |-> "returned", error |-> "ok"]
    ELSE IF retried(cls, answers[k]) /\ k <= total_retries(cls)
    THEN send_from(cls, answers, k + 1)
    ELSE [attempts |-> k, outcome |-> "raised", error |-> answers[k]]

send(cls, answers) == send_from(cls, answers, 1)

\* No request was made yet.
NoRequest ==
    [cls |-> None, answers |-> <<>>,
     result |-> [attempts |-> 0, outcome |-> "none", error |-> "ok"]]

\* No direct call of the storing step was made yet.
NoFanout ==
    [called |-> FALSE, metric |-> None, data_points |-> <<>>, calls |-> <<>>,
     result |-> [user_id |-> None, metric |-> None, count |-> 0, status |-> "none"]]

(***************************************************************************)
(* State.                                                                  *)
(***************************************************************************)
NoEvent == [metric |-> None, user_id |-> None, start_date |-> None, end_date |-> None]

NoSince == [date |-> None, watermark |-> NoTime, read_failed |-> FALSE]

NoCur == [since |-> NoSince, data_points |-> <<>>, plan |-> <<>>, dynamic |-> FALSE,
          done |-> 0, total_stored |-> 0, calls |-> <<>>,
          table_before |-> {}, runs_before |-> {}]

NoResponse == [kind |-> "none"]

\* The event payloads tried, each key absent (None) or set: every choice of
\* metric, user and start_date; the same with an end_date for one pair; and
\* a user id that is not a str.  "tasks" is the name no integration is
\* registered under until register() adds one.
Events ==
    [metric : {None, "steps", "tasks"}, user_id : {None, "u1"},
     start_date : {None, "2026-01-16"}, end_date : {None}]
    \cup
    [metric : {"steps"}, user_id : {"u1"},
     start_date : {None, "2026-01-16"}, end_date : {"2026-01-17"}]
    \cup
    [metric : {"weather"}, user_id : {BytesUser},
     start_date : {None}, end_date : {None}]

\* The two tables outlive the invocations.  The runs table starts empty
\* (a fresh deployment) or as automatic runs for two users have just left it.
InitialRuns ==
    { {},
      {[user_id |-> u, metric_type |-> "steps", last_run_time |-> isoformat(1)] :
          u \in StrUsers} }

Init ==
    /\ metrics_table = {}
    /\ runs_table \in InitialRuns
    /\ integrations = RegistryInit
    /\ now = 1
    /\ pc = "idle"
    /\ event = NoEvent
    /\ metrics_to_run = <<>>
    /\ users = <<>>
    /\ mi = 1
    /\ ui = 1
    /\ results = <<>>
    /\ errors = <<>>
    /\ cur = NoCur
    /\ response = NoResponse
    /\ date_range = NoRange
    /\ lookups = <<>>
    /\ recovery = <<>>
    /\ split = NoSplit
    /\ task_fetch = NoFetch
    /\ request = NoRequest
    /\ fanout = NoFanout
    /\ hist = [pairs        |-> 0,      \* pairs taken up by the invocations so far
               faults       |-> 0,      \* collaborator failures so far
               points       |-> 0,      \* data points handed out so far
               direct       |-> 0,      \* direct MetricsDB calls so far
               table_start  |-> {},     \* metrics_table when the invocation began
               runs_start   |-> {},     \* runs_table when the invocation began
               trace        |-> <<>>,   \* one entry per finished pair of the invocation
               last_store   |-> <<>>,   \* arguments of the direct store call just made
               table_prev   |-> {},     \* metrics_table before that call
               repeated     |-> FALSE]  \* that call repeated the one before it

\* The history after one more collaborator failure, if `failed`.
Faulted(h, failed) == [h EXCEPT !.faults = @ + (IF failed THEN 1 ELSE 0)]
CanFail(failed) == failed => hist.faults < MaxFaults

metric == metrics_to_run[mi]
uid == users[ui]
InPair == pc = "loop" /\ mi <= Len(metrics_to_run)

\* The loop variables after the current pair: the inner loop is over users.
NextUi == IF ui < Len(users) THEN ui + 1 ELSE 1

\* An outer loop that moves on to the next metric after every pair.
NextMi_after_each_pair == mi + 1

\* The outer loop is over metrics: it moves on when the users are exhausted.
NextMi == IF ui < Len(users) THEN mi ELSE mi + 1

\* The first k elements of a list.
Prefix(seq, k) == SubSeq(seq, 1, k)

\* The entry the history keeps of a finished pair.
TraceEntry(since, fetched, outcome, calls, tbefore, rbefore, tafter, rafter) ==
    [metric |-> metric, user_id |-> uid, since |-> since, fetched |-> fetched,
     fetch_returned |-> (outcome # "error" \/ calls # <<>>),
     outcome |-> outcome, calls |-> calls,
     table_before |-> tbefore, runs_before |-> rbefore,
     table_after |-> tafter, runs_after |-> rafter]

(***************************************************************************)
(* Time passes.                                                            *)
(***************************************************************************)
\* The clock is read at tick granularity and never runs backwards: a call
\* begins `dt` ticks (0 or 1) after the call before it.
Later(dt) == IF now + dt <= MaxClock THEN now + dt ELSE now

(***************************************************************************)
(* Calls made on the collaborators directly, outside the handler.          *)
(***************************************************************************)
\* IntegrationRegistry.register(metric_name, integration_class)
\* Integrations are registered when the process starts, before it serves.
Register(metric_name, integration_class) ==
    /\ pc = "idle"
    /\ hist.pairs = 0
    /\ hist.direct = 0
    /\ response = NoResponse
    /\ integrations' = register(integrations, metric_name, integration_class)
    /\ integrations' # integrations
    /\ UNCHANGED <<metrics_table, runs_table, now, pc, event, metrics_to_run, users,
                   mi, ui, results, errors, cur, response, hist, date_range, lookups,
                   recovery, split, task_fetch, request, fanout>>

\* MetricsDB().store_metrics(user_id, metric_type, data_points)
StoreMetricsCall(user_id, metric_type, data_points, dt) ==
    /\ pc = "idle"
    /\ now' = Later(dt)
    /\ hist.direct < MaxDirectCalls
    /\ metrics_table' = store_metrics(metrics_table, user_id, metric_type, data_points,
                                      Later(dt))
    /\ hist' = [hist EXCEPT
                  !.direct = @ + 1,
                  !.last_store = <<user_id, metric_type, data_points>>,
                  !.table_prev = metrics_table,
                  !.repeated = (hist.last_store = <<user_id, metric_type, data_points>>)]
    /\ UNCHANGED <<runs_table, integrations, pc, event, metrics_to_run, users,
                   mi, ui, results, errors, cur, response, date_range, lookups, recovery,
                   split, task_fetch, request, fanout>>

\* MetricsDB().update_last_run(user_id, metric_type)
UpdateLastRunCall(user_id, metric_type, dt) ==
    /\ pc = "idle"
    /\ now' = Later(dt)
    /\ hist.direct < MaxDirectCalls
    /\ runs_table' = update_last_run(runs_table, user_id, metric_type, Later(dt))
    /\ hist' = [hist EXCEPT !.direct = @ + 1, !.last_store = <<>>, !.repeated = FALSE]
    /\ UNCHANGED <<metrics_table, integrations, pc, event, metrics_to_run, users,
                   mi, ui, results, errors, cur, response, date_range, lookups, recovery,
                   split, task_fetch, request, fanout>>

(***************************************************************************)
(* lambda_function.py: handler.                                            *)
(***************************************************************************)
\* Lines 101-102 run before the try: an exception of MetricsDB() (boto3 with
\* no region or no credentials configured) leaves the handler as an exception.
HandlerConstructionRaises ==
    /\ pc = "idle"
    /\ event' = NoEvent
    /\ response' = [kind |-> "raised"]
    /\ hist' = [hist EXCEPT !.trace = <<>>,
                            !.table_start = metrics_table, !.runs_start = runs_table,
                            !.last_store = <<>>, !.repeated = FALSE]
    /\ metrics_to_run' = <<>>
    /\ users' = <<>>
    /\ results' = <<>>
    /\ errors' = <<>>
    /\ mi' = 1
    /\ ui' = 1
    /\ lookups' = <<>>
    /\ UNCHANGED <<metrics_table, runs_table, integrations, now, pc, cur, date_range, recovery,
            split, task_fetch, request, fanout>>

\* Lines 84-114: read the event, build the two lists.  get_all_users swallows
\* a failed scan and answers ['default'].
HandlerStartWithin(ev, scan_fails, dt, budget) ==
    /\ pc = "idle"
    /\ now' = Later(dt)
    /\ event' = ev
    /\ metrics_to_run' = IF Truthy(ev.metric) THEN <<ev.metric>>
                         ELSE list_metrics(integrations)
    /\ IF Truthy(ev.user_id) THEN users' = <<ev.user_id>>
       ELSE IF scan_fails THEN users' = <<DefaultUser>>
       ELSE users' \in get_all_users(runs_table)
    /\ results' = <<>>
    /\ errors' = <<>>
    /\ mi' = 1
    /\ ui' = 1
    /\ pc' = "loop"
    /\ cur' = NoCur
    /\ response' = NoResponse
    /\ hist.pairs + Len(metrics_to_run') * Len(users') <= budget
    /\ scan_fails => (~Truthy(ev.user_id) /\ hist.faults < MaxFaults)
    /\ hist' = [Faulted(hist, scan_fails) EXCEPT
                            !.pairs = @ + Len(metrics_to_run') * Len(users'),
                            !.trace = <<>>,
                            !.table_start = metrics_table, !.runs_start = runs_table,
                            !.last_store = <<>>, !.repeated = FALSE]
    /\ lookups' = <<>>
    /\ UNCHANGED <<metrics_table, runs_table, integrations, date_range, recovery, split,
            task_fetch, request, fanout>>

\* An invocation, within the pairs one behaviour takes up.
HandlerStart(ev, scan_fails, dt) == HandlerStartWithin(ev, scan_fails, dt, MaxPairs)

\* The pair ends in the except clause of lines 123-126.
PairRaises(e, since, fetched, calls, tbefore, rbefore, tafter, rafter, h) ==
    /\ errors' = record_error(errors, uid, metric, e)
    /\ hist' = [h EXCEPT !.trace = Append(@,
                   TraceEntry(since, fetched, "error", calls, tbefore, rbefore,
                              tafter, rafter))]
    /\ mi' = NextMi
    /\ ui' = NextUi
    /\ pc' = "loop"
    /\ cur' = NoCur
    /\ UNCHANGED <<results>>

\* The pair ends at results.append(result), line 122.
PairReturns(result, since, fetched, calls, tbefore, rbefore, tafter, rafter, h) ==
    /\ results' = Append(results, result)
    /\ hist' = [h EXCEPT !.trace = Append(@,
                   TraceEntry(since, fetched, result.status, calls, tbefore, rbefore,
                              tafter, rafter))]
    /\ mi' = NextMi
    /\ ui' = NextUi
    /\ pc' = "loop"
    /\ cur' = NoCur
    /\ UNCHANGED <<errors>>

\* Line 120, registry miss: raise ValueError("Unknown metric: ...").
PairUnknownMetric ==
    /\ InPair
    /\ get_integration(integrations, metric) = None
    /\ PairRaises("Unknown metric: " \o metric, NoSince, <<>>, <<>>, metrics_table, runs_table,
                  metrics_table, runs_table, hist)
    /\ lookups' = Append(lookups, get_integration_call(integrations, metric, uid,
                                                         FALSE, FALSE, lookups))
    /\ UNCHANGED <<metrics_table, runs_table, integrations, now, event,
                   metrics_to_run, users, response, date_range, recovery, split,
                   task_fetch, request, fanout>>

\* Line 120, the constructor raises: the secret store has no parameter for
\* this user (google_fit.py 20-44, clickup.py 24-58).
PairConstructorRaises ==
    /\ InPair
    /\ get_integration(integrations, metric) # None
    /\ resolves_credentials(get_integration(integrations, metric))
    /\ CanFail(TRUE)
    /\ PairRaises("ParameterNotFound", NoSince, <<>>, <<>>, metrics_table, runs_table,
                  metrics_table, runs_table, Faulted(hist, TRUE))
    /\ lookups' = Append(lookups, get_integration_call(integrations, metric, uid,
                                                         TRUE, FALSE, lookups))
    /\ UNCHANGED <<metrics_table, runs_table, integrations, now, event,
                   metrics_to_run, users, response, date_range, recovery, split,
                   task_fetch, request, fanout>>

\* Line 53: start_date if start_date else db.get_last_run(uid, metric).
\* get_last_run swallows a failed read and answers None.
\* The value is kept as [date, watermark], one of them set at most, with
\* whether the read was made and failed.
Since(read_fails) ==
    IF Truthy(event.start_date)
    THEN [date |-> event.start_date, watermark |-> NoTime, read_failed |-> FALSE]
    ELSE IF read_fails THEN [NoSince EXCEPT !.read_failed = TRUE]
    ELSE [date |-> None, watermark |-> get_last_run(runs_table, uid, metric),
          read_failed |-> FALSE]

\* A read can fail only where it is made, and within the failure budget.
ReadMayFail(read_fails, more) ==
    /\ read_fails => ~Truthy(event.start_date)
    /\ hist.faults + (IF read_fails THEN 1 ELSE 0) + more <= MaxFaults

\* The custom task types request can fail only in the ClickUp constructor;
\* the object it leaves has no custom types, so every task it reports is of
\* type 'unknown' (clickup.py line 169: self.custom_types.get(id, 'unknown')).
TypesMayFail(types_fail, data_points) ==
    types_fail =>
        /\ get_integration(integrations, metric) = ClickUp
        /\ \A k \in 1..Len(data_points) : data_points[k].metric_type = "unknown"

\* Lines 53-57, fetch_data raises (transport, authorization, a date that
\* does not parse).
PairFetchRaises(read_fails) ==
    /\ InPair
    /\ get_integration(integrations, metric) # None
    /\ ReadMayFail(read_fails, 1)
    /\ PairRaises("FetchError", Since(read_fails), <<>>, <<>>, metrics_table, runs_table,
                  metrics_table, runs_table, Faulted(Faulted(hist, read_fails), TRUE))
    /\ lookups' = Append(lookups, get_integration_call(integrations, metric, uid,
                                                         FALSE, FALSE, lookups))
    /\ UNCHANGED <<metrics_table, runs_table, integrations, now, event,
                   metrics_to_run, users, response, date_range, recovery, split,
                   task_fetch, request, fanout>>

\* Lines 53-62, fetch_data returns nothing: the pair is reported no_data.
PairNoData(read_fails, types_fail, data_points) ==
    /\ InPair
    /\ get_integration(integrations, metric) # None
    /\ no_data(data_points)
    /\ TypesMayFail(types_fail, data_points)
    /\ ReadMayFail(read_fails, IF types_fail THEN 1 ELSE 0)
    /\ PairReturns([user_id |-> uid, metric |-> metric, count |-> 0, status |-> "no_data"],
                   Since(read_fails), data_points, <<>>, metrics_table, runs_table,
                   metrics_table, runs_table,
                   Faulted(Faulted(hist, read_fails), types_fail))
    /\ lookups' = Append(lookups, get_integration_call(integrations, metric, uid,
                                                         FALSE, types_fail, lookups))
    /\ UNCHANGED <<metrics_table, runs_table, integrations, now, event,
                   metrics_to_run, users, response, date_range, recovery, split,
                   task_fetch, request, fanout>>

\* Lines 53-70, fetch_data returns data_points and the pair goes on to one
\* of the two _store_* functions.
PairFetched(read_fails, types_fail, data_points) ==
    /\ InPair
    /\ get_integration(integrations, metric) # None
    /\ ~no_data(data_points)
    /\ hist.points + Len(data_points) <= MaxTotalPoints
    /\ TypesMayFail(types_fail, data_points)
    /\ ReadMayFail(read_fails, IF types_fail THEN 1 ELSE 0)
    /\ cur' = [since |-> Since(read_fails), data_points |-> data_points,
               plan |-> store_plan(data_points, metric),
               dynamic |-> has_dynamic_types(data_points),
               done |-> 0, total_stored |-> 0, calls |-> <<>>,
               table_before |-> metrics_table, runs_before |-> runs_table]
    /\ hist' = [Faulted(Faulted(hist, read_fails), types_fail) EXCEPT
                  !.points = @ + Len(data_points)]
    /\ pc' = "store"
    /\ lookups' = Append(lookups, get_integration_call(integrations, metric, uid,
                                                         FALSE, types_fail, lookups))
    /\ UNCHANGED <<metrics_table, runs_table, integrations, now, event, metrics_to_run,
                   users, mi, ui, results, errors, response, date_range, recovery, split,
                   task_fetch, request, fanout>>

\* One db.store_metrics call of the pair and what follows it.  `ok` is
\* whether the batch write goes through; when it does not, `written` of the
\* group's points were put before the exception (no rollback).  On the last
\* group the function goes on to its `if not start_date` and its return,
\* whose count is `count`.
StoreGroup(ok, written, count) ==
    LET group == cur.plan[cur.done + 1]
        call == [op |-> "store_metrics", metric_type |-> group.metric_type,
                 points |-> group.points, written |-> written, ok |-> ok]
        calls == Append(cur.calls, call)
        total == cur.total_stored + Len(group.points)
        last == cur.done + 1 = Len(cur.plan)
        stored == store_metrics(metrics_table, uid, group.metric_type,
                                Prefix(group.points, written), now)
    IN  /\ pc = "store"
        /\ written \in 0..Len(group.points)
        /\ ok => (IsStr(uid) /\ written = Len(group.points))
        /\ ~IsStr(uid) => written = 0
        /\ (~ok /\ IsStr(uid)) => hist.faults < MaxFaults
        /\ metrics_table' = stored
        /\ LET h == Faulted(hist, ~ok /\ IsStr(uid))
           IN  IF ~ok
               THEN PairRaises("StoreError", cur.since, cur.data_points, calls,
                               cur.table_before, cur.runs_before,
                                stored, runs_table, h)
               ELSE IF last /\ ~advances_watermark(event.start_date)
               THEN PairReturns([user_id |-> uid, metric |-> metric,
                                 count |-> count, status |-> "success"],
                                cur.since, cur.data_points, calls,
                                cur.table_before, cur.runs_before,
                                stored, runs_table, h)
               ELSE /\ cur' = [cur EXCEPT !.done = @ + 1, !.total_stored = total,
                                          !.calls = calls]
                    /\ pc' = IF last THEN "update" ELSE "store"
                    /\ hist' = h
                    /\ UNCHANGED <<mi, ui, results, errors>>
        /\ UNCHANGED <<runs_table, integrations, now, event, metrics_to_run, users,
                       response, date_range, lookups, recovery, split, task_fetch, request,
                       fanout>>

\* _store_single_metric, lines 34-45: one store_metrics call for the whole
\* list under the invoked metric; count is len(data_points).
StoreSingle(ok, written) ==
    /\ pc = "store"
    /\ ~cur.dynamic
    /\ StoreGroup(ok, written, Len(cur.data_points))

\* _store_dynamic_metrics, lines 10-31: one store_metrics call per group;
\* count is the running total_stored.
StoreDynamicGroup(ok, written) ==
    /\ pc = "store"
    /\ cur.dynamic
    /\ StoreGroup(ok, written,
                  cur.total_stored + Len(cur.plan[cur.done + 1].points))

\* db.update_last_run(uid, metric) at lines 29 / 42, then the return.
UpdateLastRun(ok) ==
    LET call == [op |-> "update_last_run", metric_type |-> metric, points |-> <<>>,
                 written |-> 0, ok |-> ok]
        calls == Append(cur.calls, call)
        count == IF cur.dynamic THEN cur.total_stored ELSE Len(cur.data_points)
        updated == IF ok THEN update_last_run(runs_table, uid, metric, now)
                   ELSE runs_table
        h == Faulted(hist, ~ok /\ IsStr(uid))
    IN  /\ pc = "update"
        /\ ok => IsStr(uid)
        /\ (~ok /\ IsStr(uid)) => hist.faults < MaxFaults
        /\ runs_table' = updated
        /\ IF ok
           THEN PairReturns([user_id |-> uid, metric |-> metric, count |-> count,
                             status |-> "success"],
                            cur.since, cur.data_points, calls,
                            cur.table_before, cur.runs_before,
                            metrics_table, updated, h)
           ELSE PairRaises("UpdateError", cur.since, cur.data_points, calls,
                           cur.table_before, cur.runs_before,
                            metrics_table, updated, h)
        /\ UNCHANGED <<metrics_table, integrations, now, event, metrics_to_run, users,
                       response, date_range, lookups, recovery, split, task_fetch, request,
                       fanout>>

\* Lines 128-137: the loops are over, the summary is returned.
HandlerReturns ==
    /\ pc = "loop"
    /\ mi > Len(metrics_to_run)
    /\ json_dumpable(results, errors)
    /\ response' = [kind |-> "returned", statusCode |-> status_code(errors),
                    body |-> [results |-> results, errors |-> errors,
                              total_processed |-> Len(results),
                              total_errors |-> Len(errors)]]
    /\ pc' = "idle"
    /\ UNCHANGED <<metrics_table, runs_table, integrations, now, event, metrics_to_run,
                   users, mi, ui, results, errors, cur, hist, date_range, lookups,
                   recovery, split, task_fetch, request, fanout>>

\* Lines 139-144: json.dumps raises inside the try (a user id that is not a
\* str), the outer except answers 500.
HandlerFatal ==
    /\ pc = "loop"
    /\ mi > Len(metrics_to_run)
    /\ ~json_dumpable(results, errors)
    /\ response' = [kind |-> "returned", statusCode |-> 500,
                    body |-> [error |-> "TypeError"]]
    /\ pc' = "idle"
    /\ UNCHANGED <<metrics_table, runs_table, integrations, now, event, metrics_to_run,
                   users, mi, ui, results, errors, cur, hist, date_range, lookups,
                   recovery, split, task_fetch, request, fanout>>

(***************************************************************************)
(* The specification.                                                      *)
(***************************************************************************)
\* The lists a fetch can return now for the current pair.
FetchLists ==
    IF InPair /\ get_integration(integrations, metric) # None
    THEN SeqsOf(fetch_points(get_integration(integrations, metric), now), 0, MaxPoints)
    ELSE {}

\* The lists a direct store_metrics call is given: points with or without
\* their own timestamp.
DirectPoints ==
    [date : Dates, value : Values, timestamp : {NoTime, isoformat(0)},
     metric_type : {Absent}]

\* The handler, invoked again and again on the durable tables.
Next ==
    \/ Register("tasks", ClickUp)
    \/ HandlerConstructionRaises
    \/ \E ev \in Events, scan_fails \in BOOLEAN, dt \in 0..1 :
          HandlerStart(ev, scan_fails, dt)
    \/ PairUnknownMetric
    \/ PairConstructorRaises
    \/ \E read_fails \in BOOLEAN : PairFetchRaises(read_fails)
    \/ \E read_fails \in BOOLEAN, types_fail \in BOOLEAN, d \in FetchLists :
          PairNoData(read_fails, types_fail, d)
    \/ \E read_fails \in BOOLEAN, types_fail \in BOOLEAN, d \in FetchLists :
          PairFetched(read_fails, types_fail, d)
    \/ \E ok \in BOOLEAN, written \in 0..MaxPoints : StoreSingle(ok, written)
    \/ \E ok \in BOOLEAN, written \in 0..MaxPoints : StoreDynamicGroup(ok, written)
    \/ \E ok \in BOOLEAN : UpdateLastRun(ok)
    \/ HandlerReturns
    \/ HandlerFatal

Spec == Init /\ [][Next]_vars

\* One invocation over the whole product of the metrics and the users: the
\* first of a behaviour, taking up to MaxLoopPairs pairs.
HandlerStartOnce(ev, dt) ==
    /\ hist.pairs = 0
    /\ HandlerStartWithin(ev, FALSE, dt, MaxLoopPairs)

\* The handler invoked once on the durable tables, every pair free to end as
\* it can.
NextLoop ==
    \/ Register("tasks", ClickUp)
    \/ \E ev \in Events, dt \in 0..1 : HandlerStartOnce(ev, dt)
    \/ PairUnknownMetric
    \/ PairConstructorRaises
    \/ \E read_fails \in BOOLEAN : PairFetchRaises(read_fails)
    \/ \E read_fails \in BOOLEAN, types_fail \in BOOLEAN, d \in FetchLists :
          PairNoData(read_fails, types_fail, d)
    \/ \E read_fails \in BOOLEAN, types_fail \in BOOLEAN, d \in FetchLists :
          PairFetched(read_fails, types_fail, d)
    \/ \E ok \in BOOLEAN, written \in 0..MaxPoints : StoreSingle(ok, written)
    \/ \E ok \in BOOLEAN, written \in 0..MaxPoints : StoreDynamicGroup(ok, written)
    \/ \E ok \in BOOLEAN : UpdateLastRun(ok)
    \/ HandlerReturns
    \/ HandlerFatal

SpecLoop == Init /\ [][NextLoop]_vars

\* MetricsDB called directly, as tests/test_functional.py calls it.
NextDB ==
    \/ \E m \in {"steps", "weather"},
          d \in SeqsOf(DirectPoints, 0, MaxPoints), dt \in 0..1 :
          StoreMetricsCall("u1", m, d, dt)
    \/ \E u \in StrUsers, dt \in 0..1 : UpdateLastRunCall(u, "steps", dt)

SpecDB == Init /\ [][NextDB]_vars

\* IntegrationRegistry().get_integration(metric_name, user_id), called
\* directly; `raises` is whether the constructor fails to resolve the user's
\* credentials.
GetIntegrationCall(metric_name, user_id, raises) ==
    /\ pc = "idle"
    /\ Len(lookups) < MaxDirectCalls
    /\ raises => resolves_credentials(get_integration(integrations, metric_name))
    /\ lookups' = Append(lookups, get_integration_call(integrations, metric_name, user_id,
                                                         raises, FALSE, lookups))
    /\ UNCHANGED <<metrics_table, runs_table, integrations, now, pc, event, metrics_to_run,
                   users, mi, ui, results, errors, cur, response, hist, date_range,
                   recovery, split, task_fetch, request, fanout>>

\* The registry used directly: late registrations, one of them replacing a
\* class, between get_integration calls.
NextRegistry ==
    \/ Register("tasks", ClickUp)
    \/ Register("steps", OpenMeteo)
    \/ \E m \in {"steps", "weather", "tasks", "bogus"}, u \in StrUsers, raises \in BOOLEAN :
          GetIntegrationCall(m, u, raises)

SpecRegistry == Init /\ [][NextRegistry]_vars

\* integration._get_date_range(since, until), called at instant t.  The
\* function reads nothing but its arguments and the clock: one call is kept.
GetDateRange(since, until, t) ==
    /\ date_range = NoRange
    /\ date_range' = [since |-> since, until |-> until, at |-> t,
                      result |-> get_date_range(since, until, t)]
    /\ UNCHANGED <<metrics_table, runs_table, integrations, now, pc, event, metrics_to_run,
                   users, mi, ui, results, errors, cur, response, hist, lookups, recovery,
                   split, task_fetch, request, fanout>>

NextRange ==
    \E since \in Texts, until \in Texts, t \in Instants : GetDateRange(since, until, t)

SpecRange == Init /\ [][NextRange]_vars

(***************************************************************************)
(* An automatic run of one pair, from the watermark read to the watermark  *)
(* update, with the window its integration resolves and the rows the       *)
(* provider returns for that window.  The pair is (u1, weather): the       *)
(* Open-Meteo archive is asked for the calendar days start..end.           *)
(***************************************************************************)
MaxRuns == 3             \* automatic runs of the pair in one behaviour

SecondsPerDay == 24 * 3600
TicksPerDay == SecondsPerDay * TicksPerSecond

\* datetime.now(timezone.utc) at clock tick t; tick 0 is 2026-01-19T00:00:00Z.
datetime_now(t) ==
    [date |-> 19 + (t \div TicksPerDay),
     tod  |-> (t \div TicksPerSecond) % SecondsPerDay,
     us   |-> (t % TicksPerSecond) * (1000000 \div TicksPerSecond),
     tz   |-> UTC]

\* A last_run_time as fetch_data receives it: None when there is no
\* watermark, else the ISO text update_last_run wrote (always "+00:00").
since_text(last_run) ==
    IF last_run = NoTime THEN NoneArg
    ELSE LET t == fromisoformat(last_run) IN datetime_isoformat(datetime_now(t))

\* strftime('%Y-%m-%d') of a day of January 2026.
strftime_date(d) == "2026-01-" \o ToString(d)

\* What the archive holds for day d when asked at tick t: the row of the
\* running day is provisional and is revised once the day is over.
archive_value(d, t) == IF d = datetime_now(t).date THEN 1 ELSE 2

\* OpenMeteoWeatherIntegration.fetch_data at tick t for a resolved window:
\* one point per day of start_str..end_str, stamped with the fetch instant.
open_meteo_points(start_date, end_date, t) ==
    IF end_date.date < start_date.date THEN <<>>
    ELSE [k \in 1..(end_date.date - start_date.date + 1) |->
            [date        |-> strftime_date(start_date.date + k - 1),
             value       |-> archive_value(start_date.date + k - 1, t),
             timestamp   |-> isoformat(t),
             metric_type |-> Absent]]

\* One automatic run of (user_id, metric) at tick t, cut short after
\* store_metrics and before update_last_run when `stops`: the tables it
\* leaves and what it did.
automatic_run(table, runs, user_id, metric_name, t, stops) ==
    LET last_run    == get_last_run(runs, user_id, metric_name)
        window      == get_date_range(since_text(last_run), NoneArg, datetime_now(t))
        data_points == open_meteo_points(window.start_date, window.end_date, t)
        stored      == IF no_data(data_points) THEN table
                       ELSE store_metrics(table, user_id, metric_name, data_points, t)
        updated     == IF no_data(data_points) \/ stops THEN runs
                       ELSE update_last_run(runs, user_id, metric_name, t)
    IN  [at |-> t, last_run |-> last_run, window |-> window, data_points |-> data_points,
         stopped |-> stops, table_before |-> table, runs_before |-> runs,
         table_after |-> stored, runs_after |-> updated]

\* The gaps between two runs: the next tick, or the same time a day later.
RunGaps == {1, TicksPerDay}

\* The handler runs the pair (u1, weather) automatically, `dt` after the
\* run before, and the process stops before update_last_run when `stops`.
AutomaticRun(dt, stops) ==
    /\ pc = "idle"
    /\ Len(recovery) < MaxRuns
    /\ LET run == automatic_run(metrics_table, runs_table, "u1", "weather", now + dt, stops)
       IN  /\ stops => ~no_data(run.data_points)
           /\ metrics_table' = run.table_after
           /\ runs_table' = run.runs_after
           /\ recovery' = Append(recovery, run)
    /\ now' = now + dt
    /\ UNCHANGED <<integrations, pc, event, metrics_to_run, users, mi, ui, results, errors,
                   cur, response, hist, date_range, lookups, split, task_fetch, request,
                   fanout>>

NextRecovery ==
    \E dt \in RunGaps, stops \in BOOLEAN : AutomaticRun(dt, stops)

SpecRecovery == Init /\ [][NextRecovery]_vars

\* integration._split_task_by_day(task), called directly.
SplitTaskByDay(task) ==
    /\ split' = [called |-> TRUE, task |-> task, result |-> split_task_by_day(task)]
    /\ UNCHANGED <<metrics_table, runs_table, integrations, now, pc, event, metrics_to_run,
                   users, mi, ui, results, errors, cur, response, hist, date_range,
                   lookups, recovery, task_fetch, request, fanout>>

NextSplit ==
    \E task \in SplitTasks : SplitTaskByDay(task)

SpecSplit == Init /\ [][NextSplit]_vars

\* ClickUpTasksIntegration.fetch_data, called directly: the API returns
\* `tasks` for the list, the instance holds `custom_types`, and the window
\* is the one _get_date_range resolved.  The API lists a task once.
ClickUpFetchData(tasks, custom_types, window) ==
    /\ \A a, b \in 1..Len(tasks) : a # b => tasks[a].id # tasks[b].id
    /\ task_fetch' = [called |-> TRUE, tasks |-> tasks, custom_types |-> custom_types,
                      window |-> window,
                      data_points |-> clickup_points(tasks, custom_types, window.start_date,
                                                     window.end_date, now)]
    /\ UNCHANGED <<metrics_table, runs_table, integrations, now, pc, event, metrics_to_run,
                   users, mi, ui, results, errors, cur, response, hist, date_range,
                   lookups, recovery, split, request, fanout>>

NextTasks ==
    \E tasks \in SeqsOf(ListTasks, 0, MaxTasks), custom_types \in CustomTypeMaps,
       window \in TaskWindows :
          ClickUpFetchData(tasks, custom_types, window)

SpecTasks == Init /\ [][NextTasks]_vars

\* fetch_data of an integration of class cls sends its read request; the
\* provider answers the successive attempts with `answers`.  The outcome
\* depends on nothing but the class and the answers: one request is kept.
SendRequest(cls, answers) ==
    /\ request = NoRequest
    /\ request' = [cls |-> cls, answers |-> answers, result |-> send(cls, answers)]
    /\ UNCHANGED <<metrics_table, runs_table, integrations, now, pc, event, metrics_to_run,
                   users, mi, ui, results, errors, cur, response, hist, date_range,
                   lookups, recovery, split, task_fetch, fanout>>

NextRequest ==
    \E cls \in {GoogleFit, OpenMeteo, ClickUp}, answers \in [1..MaxAnswers -> Answers] :
        SendRequest(cls, answers)

SpecRequest == Init /\ [][NextRequest]_vars

\* The points a storing step can be handed: with a metric_type of their
\* own or without one.
AnyPoints ==
    [date : Dates, value : {1}, timestamp : {isoformat(1)},
     metric_type : {Absent, "work", "unknown"}]

\* Lines 64-70 of _process_metric with a non-empty list, and the _store_*
\* function it picks, called directly, no call of the store failing.
StoreFetched(user_id, metric_name, data_points, start_date) ==
    LET plan == store_plan(data_points, metric_name)
    IN  /\ pc = "idle"
        /\ ~fanout.called
        /\ ~no_data(data_points)
        /\ metrics_table' = store_groups(metrics_table, user_id, plan, now)
        /\ runs_table' = IF advances_watermark(start_date)
                         THEN update_last_run(runs_table, user_id, metric_name, now)
                         ELSE runs_table
        /\ fanout' = [called |-> TRUE, metric |-> metric_name, data_points |-> data_points,
                      calls |-> plan,
                      result |-> [user_id |-> user_id, metric |-> metric_name,
                                  count |-> total_stored(plan), status |-> "success"]]
        /\ UNCHANGED <<integrations, now, pc, event, metrics_to_run, users, mi, ui, results,
                       errors, cur, response, hist, date_range, lookups, recovery, split,
                       task_fetch, request>>

NextStore ==
    \E m \in {"tasks", "steps"}, d \in SeqsOf(AnyPoints, 1, MaxPoints),
       start_date \in {None, "2026-01-16"} :
          StoreFetched("u1", m, d, start_date)

SpecStore == Init /\ [][NextStore]_vars

(***************************************************************************)
(* Properties.                                                             *)
(***************************************************************************)
\* A table with the timestamp attribute of its items left out.
WithoutTimestamps(table) ==
    {[user_id |-> i.user_id, metric_date |-> i.metric_date, metric_type |-> i.metric_type,
      date |-> i.date, value |-> i.value] : i \in table}

\* Every point of the list has its own timestamp, as a DataPoint does.
Stamped(data_points) ==
    \A k \in 1..Len(data_points) : data_points[k].timestamp # NoTime

\* The last invocation returned a response (it did not raise).
Returned == pc = "idle" /\ response.kind = "returned"

\* An invocation is running or has just returned.
Invoked == pc # "idle" \/ Returned

\* The run has a start-date override.
Manual == Truthy(event.start_date)

\* C1: a store_metrics call that repeats the call just before it (same user,
\* metric type and list) leaves the metrics table with the same record keys,
\* the same number of records and the same values as the first call left
\* it; when the points are DataPoints (each has its timestamp) the table is
\* exactly the same.
C1_IdempotentStore ==
    hist.repeated =>
        /\ Cardinality(metrics_table) = Cardinality(hist.table_prev)
        /\ WithoutTimestamps(metrics_table) = WithoutTimestamps(hist.table_prev)
        /\ Stamped(hist.last_store[3]) => metrics_table = hist.table_prev

\* C1 witness: a list of two stamped points for two dates was stored twice,
\* the second time a tick later.
C1_Witness ==
    /\ hist.repeated
    /\ Len(hist.last_store[3]) = 2
    /\ Stamped(hist.last_store[3])
    /\ Cardinality(metrics_table) = 2
    /\ now = MaxClock

\* The puts a finished pair made: the points its store_metrics calls wrote,
\* in call order, each with the metric type it was stored under.
RECURSIVE PutsOf(_)
PutsOf(calls) ==
    IF calls = <<>> THEN <<>>
    ELSE LET c == Head(calls)
             mine == IF c.op = "store_metrics"
                     THEN [k \in 1..c.written |->
                             [date |-> c.points[k].date, metric_type |-> c.metric_type,
                              value |-> c.points[k].value]]
                     ELSE <<>>
         IN  mine \o PutsOf(Tail(calls))

\* The items of a table for one (user, date, metric type).
ItemsAt(table, user_id, date, metric_type) ==
    {i \in table : i.user_id = user_id /\ i.date = date /\ i.metric_type = metric_type}

\* Last write wins for one finished pair: a key the pair wrote holds the
\* value of the pair's last put to it; any other key holds what it held.
LastWriteWins(e) ==
    LET puts == PutsOf(e.calls)
    IN  \A u \in StrUsers \cup {DefaultUser}, d \in Dates,
           m \in {"steps", "weather", "tasks"} \cup TaskTypes :
          LET hits == {k \in 1..Len(puts) : puts[k].date = d /\ puts[k].metric_type = m}
              last == CHOOSE k \in hits : \A j \in hits : j <= k
          IN  IF u = e.user_id /\ hits # {}
              THEN {i.value : i \in ItemsAt(e.table_after, u, d, m)} = {puts[last].value}
              ELSE ItemsAt(e.table_after, u, d, m) = ItemsAt(e.table_before, u, d, m)

\* C2: the metrics table holds at most one record per (user, date, metric
\* type), the record's sort key is "<date>#<metric_type>", and after each
\* pair of a handler run every key holds the value of the latest write to it.
C2_OneRecordPerKey ==
    /\ \A i, j \in metrics_table :
          (i.user_id = j.user_id /\ i.date = j.date /\ i.metric_type = j.metric_type)
              => i = j
    /\ \A i \in metrics_table : i.metric_date = i.date \o "#" \o i.metric_type
    /\ \A k \in 1..Len(hist.trace) : LastWriteWins(hist.trace[k])

\* C2 witness: a pair overwrote a record that an earlier run had stored with
\* another value.
C2_Witness ==
    \E k \in 1..Len(hist.trace) :
        \E old \in hist.trace[k].table_before, new \in hist.trace[k].table_after :
            /\ old.user_id = new.user_id
            /\ old.metric_date = new.metric_date
            /\ old.value # new.value

\* C3: in an invocation with a start_date, get_last_run of every (user,
\* metric) is what it was when the invocation began, at every step and at
\* the return.
C3_ManualKeepsWatermark ==
    (Invoked /\ Manual) =>
        \A u \in StrUsers \cup {DefaultUser}, m \in {"steps", "weather", "tasks"} :
            get_last_run(runs_table, u, m) = get_last_run(hist.runs_start, u, m)

\* C3 witness: a manual run returned with a pair that stored data, for a
\* pair whose watermark is older than the clock.
C3_Witness ==
    /\ Returned
    /\ Manual
    /\ \E k \in 1..Len(results) :
          /\ results[k].status = "success"
          /\ results[k].count > 0
          /\ get_last_run(runs_table, results[k].user_id, results[k].metric) = isoformat(1)
    /\ now = MaxClock

\* C4: a pair whose fetch_data returned the empty list leaves the metrics
\* table and the runs table as they were and is reported in results with
\* status no_data and count 0, on automatic and manual runs alike.
C4_EmptyFetchIsNoOp ==
    \A k \in 1..Len(hist.trace) :
        LET e == hist.trace[k]
        IN  (e.fetch_returned /\ e.fetched = <<>>) =>
                /\ e.outcome = "no_data"
                /\ e.table_after = e.table_before
                /\ e.runs_after = e.runs_before
                /\ \E r \in 1..Len(results) :
                      results[r] = [user_id |-> e.user_id, metric |-> e.metric,
                                    count |-> 0, status |-> "no_data"]

\* C4 witness: an automatic run reported no_data for a pair that has a
\* watermark older than the clock.
C4_Witness ==
    /\ Returned
    /\ ~Manual
    /\ now = MaxClock
    /\ \E k \in 1..Len(hist.trace) :
          /\ hist.trace[k].outcome = "no_data"
          /\ get_last_run(runs_table, hist.trace[k].user_id, hist.trace[k].metric)
                = isoformat(1)

\* The users and metric names the runs are about.
AllUsers == StrUsers \cup {DefaultUser, BytesUser}
AllMetrics == {"steps", "weather", "tasks"}

\* The positions of a list of results or errors that are about one pair.
EntriesOf(list, user_id, metric_name) ==
    {j \in 1..Len(list) : list[j].user_id = user_id /\ list[j].metric = metric_name}

\* An exception was raised while the pair was processed: in the constructor,
\* the watermark read, the fetch, a store or the watermark update.
RaisedIn(e) == e.since.read_failed \/ e.outcome = "error"

\* What a pair reports when nothing raises, from its own fetch alone.
ExpectedResult(e) ==
    [user_id |-> e.user_id, metric |-> e.metric, count |-> Len(e.fetched),
     status |-> IF e.fetched = <<>> THEN "no_data" ELSE "success"]

\* C5: every pair in which an exception was raised (integration construction,
\* watermark read, fetch, store or watermark update) has exactly one entry in
\* errors and none in results; every other pair has no entry in errors and
\* the one result its own fetch gives; the returned totals count the two
\* kinds of pair.
C5_FailureIsolation ==
    /\ \A k \in 1..Len(hist.trace) :
          LET e == hist.trace[k]
          IN  IF RaisedIn(e)
              THEN /\ Cardinality(EntriesOf(errors, e.user_id, e.metric)) = 1
                   /\ EntriesOf(results, e.user_id, e.metric) = {}
              ELSE /\ EntriesOf(errors, e.user_id, e.metric) = {}
                   /\ Cardinality(EntriesOf(results, e.user_id, e.metric)) = 1
                   /\ \A j \in EntriesOf(results, e.user_id, e.metric) :
                         results[j] = ExpectedResult(e)
    /\ (Returned /\ response.statusCode # 500) =>
          /\ Len(hist.trace) = Len(metrics_to_run) * Len(users)
          /\ response.body.total_errors =
                Cardinality({k \in 1..Len(hist.trace) : RaisedIn(hist.trace[k])})
          /\ response.body.total_processed =
                Cardinality({k \in 1..Len(hist.trace) : ~RaisedIn(hist.trace[k])})

\* The registry has an entry for the metric name.
Registered(metric_name) ==
    \E k \in 1..Len(integrations) : integrations[k][1] = metric_name

\* C6: when the requested metric is not registered, every pair of the
\* invocation ends as one entry in errors carrying "Unknown metric: <name>",
\* nothing is stored and no watermark is written, results stays empty, and
\* the invocation returns 207 (its user ids being strings), never 500.
C6_UnknownMetricPerPair ==
    (Invoked /\ Truthy(event.metric) /\ ~Registered(event.metric)) =>
        /\ metrics_table = hist.table_start
        /\ runs_table = hist.runs_start
        /\ results = <<>>
        /\ Len(errors) = Len(hist.trace)
        /\ \A k \in 1..Len(errors) :
              errors[k] = [user_id |-> users[k], metric |-> event.metric,
                           error |-> "Unknown metric: " \o event.metric]
        /\ \A k \in 1..Len(hist.trace) : hist.trace[k].calls = <<>>
        /\ Returned =>
              /\ Len(errors) = Len(users)
              /\ (\A k \in 1..Len(users) : IsStr(users[k])) =>
                    /\ response.statusCode = 207
                    /\ response.body.errors = errors
                    /\ response.body.total_errors = Len(users)

\* C6 witness: "tasks" was requested for all users while not registered, two
\* users were listed, and the invocation returned 207 with two errors.
C6_Witness ==
    /\ Returned
    /\ event.metric = "tasks"
    /\ ~Registered("tasks")
    /\ Len(users) = 2
    /\ Len(errors) = 2
    /\ response.statusCode = 207

\* The positions of the update_last_run calls in a pair's call log.
UpdatesIn(calls) == {k \in 1..Len(calls) : calls[k].op = "update_last_run"}

\* The calls of a pair come in order: every store_metrics call of the plan,
\* each completed, and only then, on a run without start_date, one
\* update_last_run for the invoked metric.
StoresThenUpdate(calls, fetched, metric_name, start_date) ==
    /\ Cardinality(UpdatesIn(calls)) <= 1
    /\ \A k \in UpdatesIn(calls) :
          /\ k = Len(calls)
          /\ ~Truthy(start_date)
          /\ calls[k].metric_type = metric_name
          /\ k - 1 = Len(store_plan(fetched, metric_name))
          /\ \A j \in 1..(k - 1) : calls[j].op = "store_metrics" /\ calls[j].ok

\* Every store_metrics call of the pair was made and completed.
StoresCompleted(calls, fetched, metric_name) ==
    Cardinality({k \in 1..Len(calls) : calls[k].op = "store_metrics" /\ calls[k].ok})
        = Len(store_plan(fetched, metric_name))

\* C7: on a run without start_date, a pair whose fetch returned a non-empty
\* list and whose store_metrics calls have all completed calls
\* update_last_run(user, invoked metric) exactly once, as its last call,
\* however many groups were stored; no pair calls it before a store, twice,
\* or on a run with start_date.
C7_UpdateOnceAfterStores ==
    /\ \A k \in 1..Len(hist.trace) :
          LET e == hist.trace[k]
          IN  /\ StoresThenUpdate(e.calls, e.fetched, e.metric, event.start_date)
              /\ (/\ ~Truthy(event.start_date)
                  /\ e.fetched # <<>>
                  /\ StoresCompleted(e.calls, e.fetched, e.metric))
                      => Cardinality(UpdatesIn(e.calls)) = 1
    /\ pc \in {"store", "update"} =>
          /\ UpdatesIn(cur.calls) = {}
          /\ \A j \in 1..Len(cur.calls) : cur.calls[j].ok
          /\ pc = "update" <=>
                (/\ ~Truthy(event.start_date)
                 /\ StoresCompleted(cur.calls, cur.data_points, metric))

\* C7 witness: an automatic pair stored two metric_type groups and then
\* updated the watermark of the invoked metric, three calls in all.
C7_Witness ==
    \E k \in 1..Len(hist.trace) :
        LET e == hist.trace[k]
        IN  /\ ~Truthy(event.start_date)
            /\ Len(e.calls) = 3
            /\ e.calls[1].op = "store_metrics"
            /\ e.calls[2].op = "store_metrics"
            /\ e.calls[1].metric_type # e.calls[2].metric_type
            /\ e.calls[3].op = "update_last_run"
            /\ e.calls[3].ok
            /\ e.outcome = "success"

\* C8: no step replaces the watermark of a (user, metric) with an earlier
\* instant or removes it.
C8_WatermarkMonotone ==
    [][\A u \in AllUsers, m \in AllMetrics :
          get_last_run(runs_table, u, m) # NoTime =>
              /\ get_last_run(runs_table', u, m) # NoTime
              /\ fromisoformat(get_last_run(runs_table', u, m))
                    >= fromisoformat(get_last_run(runs_table, u, m))]_vars

\* C8 witness: an invocation moved a watermark that existed when it began
\* to a later instant.
C8_Witness ==
    \E u \in AllUsers, m \in AllMetrics :
        /\ get_last_run(hist.runs_start, u, m) # NoTime
        /\ get_last_run(runs_table, u, m) # NoTime
        /\ fromisoformat(get_last_run(runs_table, u, m))
              > fromisoformat(get_last_run(hist.runs_start, u, m))

\* C9: a returned statusCode is 200 when the summary was built and no pair
\* produced an error, 207 when it was built and some pair did, and 500 only
\* when building the response failed outside the per-pair processing; with
\* 200 and 207 the body holds results, errors, total_processed = len(results)
\* and total_errors = len(errors), one entry per pair.
C9_StatusCode ==
    Returned =>
        /\ response.statusCode \in {200, 207, 500}
        /\ response.statusCode = 200 <=>
              (errors = <<>> /\ json_dumpable(results, errors))
        /\ response.statusCode = 207 <=>
              (errors # <<>> /\ json_dumpable(results, errors))
        /\ response.statusCode = 500 => ~json_dumpable(results, errors)
        /\ response.statusCode \in {200, 207} =>
              /\ response.body = [results |-> results, errors |-> errors,
                                  total_processed |-> Len(results),
                                  total_errors |-> Len(errors)]
              /\ Len(results) + Len(errors) = Len(metrics_to_run) * Len(users)
              /\ Len(errors) = Cardinality({k \in 1..Len(hist.trace) :
                                               hist.trace[k].outcome = "error"})

\* C9 witness: an invocation returned 207 with one pair in results and one
\* in errors.
C9_Witness ==
    /\ Returned
    /\ response.statusCode = 207
    /\ response.body.total_processed = 1
    /\ response.body.total_errors = 1

\* C10: no invocation ends by raising to its caller; a failure outside the
\* per-pair loop, the construction of MetricsDB included, ends in a returned
\* 500.
C10_NeverRaises == response.kind # "raised"

\* C11: in an invocation that supplies end_date, with or without start_date,
\* get_last_run of every (user, metric) stays what it was when the
\* invocation began.
C11_EndDateKeepsWatermark ==
    (Invoked /\ Truthy(event.end_date)) =>
        \A u \in AllUsers, m \in AllMetrics :
            get_last_run(runs_table, u, m) = get_last_run(hist.runs_start, u, m)

\* The known users of a watermark store: its distinct user ids, or the one
\* user "default" when it holds none.
KnownUsers(table) ==
    IF table = {} THEN {DefaultUser} ELSE {i.user_id : i \in table}

\* The elements of a list.
Range(seq) == {seq[k] : k \in 1..Len(seq)}

\* C12: an invocation without metric takes up every registered metric, one
\* without user_id every known user of the watermark store as it was when the
\* invocation began (or "default" when the store was empty), each once; with
\* both given it takes up that one pair; the pairs it has processed when it
\* returns are exactly the metrics times the users.
C12_PairEnumeration ==
    Invoked =>
        /\ IF Truthy(event.metric)
           THEN metrics_to_run = <<event.metric>>
           ELSE /\ Range(metrics_to_run) = {integrations[k][1] : k \in 1..Len(integrations)}
                /\ Len(metrics_to_run) = Cardinality(Range(metrics_to_run))
        /\ IF Truthy(event.user_id)
           THEN users = <<event.user_id>>
           ELSE /\ Range(users) = KnownUsers(hist.runs_start)
                /\ Len(users) = Cardinality(Range(users))
        /\ Returned =>
              /\ {<<hist.trace[k].metric, hist.trace[k].user_id>> : k \in 1..Len(hist.trace)}
                    = Range(metrics_to_run) \X Range(users)
              /\ Len(hist.trace) = Len(metrics_to_run) * Len(users)

\* The argument is absent: None, or the empty text the code takes for it.
AbsentArg(s) == s.kind \in {"none", "empty"}

\* The last _get_date_range call returned a window.
RangeReturned == date_range.result.kind = "returned"

\* C13: _get_date_range(None, None) gives end = now (UTC) and start = end
\* minus 7 days; with since absent, start = end minus 7 days whatever until
\* is; a since that is a calendar date D gives start = D 00:00:00 UTC; an
\* until that is a calendar date D gives end = D 23:59:59 UTC; any other
\* until is read as the ISO-8601 instant it spells.
C13_DateRangeResolution ==
    RangeReturned =>
        LET since == date_range.since
            until == date_range.until
            t == date_range.at
            r == date_range.result
        IN  /\ (AbsentArg(since) /\ AbsentArg(until)) =>
                  /\ r.end_date = t
                  /\ r.end_date.tz = "+00:00"
                  /\ r.start_date = [date |-> t.date - 7, tod |-> t.tod, us |-> t.us,
                                     tz |-> "+00:00"]
            /\ AbsentArg(since) =>
                  r.start_date = [r.end_date EXCEPT !.date = r.end_date.date - 7]
            /\ since.kind = "date" =>
                  r.start_date = [date |-> since.date, tod |-> 0, us |-> 0, tz |-> "+00:00"]
            /\ until.kind = "date" =>
                  r.end_date = [date |-> until.date, tod |-> 86399, us |-> 0,
                                tz |-> "+00:00"]
            /\ until.kind = "iso" =>
                  /\ r.end_date.date = until.date
                  /\ r.end_date.tod = until.tod
                  /\ r.end_date.us = until.us
                  /\ until.zone \in {"Z", "+00:00"} => r.end_date.tz = "+00:00"
                  /\ until.zone = "+02:00" => r.end_date.tz = "+02:00"
                  /\ until.zone = "" => r.end_date.tz = "naive"

\* C13 witness: a call without since and with a calendar date as until
\* returned, made at an instant that is not a midnight.
C13_Witness ==
    /\ RangeReturned
    /\ date_range.since.kind = "none"
    /\ date_range.until.kind = "date"
    /\ date_range.at.tod # 0
    /\ date_range.at.date # date_range.until.date

ClassesUnder(reg, metric_name) ==
    {reg[j][2] : j \in {i \in 1..Len(reg) : reg[i][1] = metric_name}}

\* Every get_integration call made so far answered as the registry of its
\* moment prescribes, and no two calls were given the same object.
LookupsByTheBook ==
    /\ \A k \in 1..Len(lookups) :
          LET c == lookups[k]
          IN  IF ClassesUnder(c.registry, c.metric_name) = {}
              THEN /\ c.outcome = "ValueError"
                   /\ c.error = "Unknown metric: " \o c.metric_name
                   /\ c.instance = NoInstance
              ELSE /\ c.outcome # "ValueError"
                   /\ c.outcome = "instance" =>
                         /\ ClassesUnder(c.registry, c.metric_name) = {c.instance.cls}
                         /\ c.instance.user_id = c.user_id
    /\ \A j, k \in 1..Len(lookups) :
          (j # k /\ lookups[j].outcome = "instance" /\ lookups[k].outcome = "instance")
              => lookups[j].instance.id # lookups[k].instance.id

\* A register(name, ctor) step leaves name in list_metrics(), makes
\* get_integration(name, .) construct with ctor, and keeps every other name's
\* class.
RegisterTakesEffect ==
    \A n \in AllMetrics, c \in {GoogleFit, OpenMeteo, ClickUp} :
        Register(n, c) =>
            /\ n \in Range(list_metrics(integrations'))
            /\ get_integration(integrations', n) = c
            /\ \A m \in AllMetrics \ {n} :
                  get_integration(integrations', m) = get_integration(integrations, m)

\* C14: get_integration(name, user) builds a new object on every call, of
\* the class registered under name and for that user, and raises "Unknown
\* metric: <name>" for a name that is not registered; after register(name,
\* ctor), list_metrics() holds name and get_integration(name, .) constructs
\* with ctor.
C14_RegistryContract == [](LookupsByTheBook) /\ [][RegisterTakesEffect]_vars

\* C14 witness: two calls for the same name and user, the second after the
\* name was registered again with another class, built two objects of the
\* two classes.
C14_Witness ==
    /\ Len(lookups) = 2
    /\ lookups[1].metric_name = lookups[2].metric_name
    /\ lookups[1].user_id = lookups[2].user_id
    /\ lookups[1].outcome = "instance"
    /\ lookups[2].outcome = "instance"
    /\ lookups[1].instance.cls # lookups[2].instance.cls

\* A request the integration of the k-th pair made failed: the credential
\* lookup or the custom task types request of its constructor, or a request
\* of its fetch_data.
RequestFailed(k) ==
    \/ lookups[k].outcome = "ParameterNotFound"
    \/ lookups[k].custom_types_failed
    \/ \E j \in EntriesOf(errors, hist.trace[k].user_id, hist.trace[k].metric) :
          errors[j].error = "FetchError"

\* C15: a pair whose integration had a request fail, in its constructor or
\* in fetch_data, ends in errors: it is never reported as success or no_data
\* and nothing is stored for it.
C15_FailuresPropagate ==
    \A k \in 1..Len(hist.trace) :
        RequestFailed(k) =>
            /\ hist.trace[k].outcome = "error"
            /\ EntriesOf(results, hist.trace[k].user_id, hist.trace[k].metric) = {}
            /\ hist.trace[k].table_after = hist.trace[k].table_before

\* C16: a pair whose integration constructor could not resolve the user's
\* credentials built no object, made no fetch, no store and no watermark
\* call, left both tables as they were, and is recorded once in errors with
\* the credential error and never in results.
C16_MissingCredentialFailsFast ==
    \A k \in 1..Len(lookups) :
        lookups[k].outcome = "ParameterNotFound" =>
            /\ lookups[k].instance = NoInstance
            /\ pc \in {"loop", "store", "update"} \/ Returned =>
                  /\ k <= Len(hist.trace)
                  /\ LET e == hist.trace[k]
                     IN  /\ e.user_id = lookups[k].user_id
                         /\ e.metric = lookups[k].metric_name
                         /\ e.outcome = "error"
                         /\ ~e.fetch_returned
                         /\ e.fetched = <<>>
                         /\ e.calls = <<>>
                         /\ e.table_after = e.table_before
                         /\ e.runs_after = e.runs_before
                         /\ EntriesOf(results, e.user_id, e.metric) = {}
                         /\ Cardinality(EntriesOf(errors, e.user_id, e.metric)) = 1
                         /\ \A j \in EntriesOf(errors, e.user_id, e.metric) :
                               errors[j].error = "ParameterNotFound"

\* C16 witness: an invocation over two users returned 207: the constructor
\* raised for one user and the other user's pair stored data.
C16_Witness ==
    /\ Returned
    /\ response.statusCode = 207
    /\ \E k \in 1..Len(lookups) : lookups[k].outcome = "ParameterNotFound"
    /\ \E r \in 1..Len(results) : results[r].status = "success"

\* The watermark items a runs table holds for one (user, metric).
WatermarksAt(table, user_id, metric_type) ==
    {i \in table : i.user_id = user_id /\ i.metric_type = metric_type}

\* get_last_run answers None for a key that has no item in the runs table
\* and the one stored text for a key that has one.
ReadsWhatIsStored ==
    \A u \in AllUsers, m \in AllMetrics :
        /\ WatermarksAt(runs_table, u, m) = {} => get_last_run(runs_table, u, m) = NoTime
        /\ WatermarksAt(runs_table, u, m) # {} =>
              WatermarksAt(runs_table, u, m) =
                  {[user_id |-> u, metric_type |-> m,
                    last_run_time |-> get_last_run(runs_table, u, m)]}

\* An update_last_run(user, metric) step leaves get_last_run(user, metric)
\* the ISO text of the clock at the call, whatever was there, and every
\* other key as it was.
UpdateWritesNow ==
    \A u \in StrUsers, dt \in 0..1 :
        UpdateLastRunCall(u, "steps", dt) =>
            /\ get_last_run(runs_table', u, "steps") # NoTime
            /\ fromisoformat(get_last_run(runs_table', u, "steps")) = now'
            /\ get_last_run(runs_table', u, "steps") = isoformat(now')
            /\ \A v \in AllUsers, m \in AllMetrics :
                  <<v, m>> # <<u, "steps">> =>
                      get_last_run(runs_table', v, m) = get_last_run(runs_table, v, m)

\* C18: get_last_run(user, metric) is None while no watermark was written for
\* the key; after update_last_run(user, metric) it is the ISO-8601 text of the
\* instant of the call, whatever value was there before, and the watermarks
\* of all other keys are unchanged.
C18_WatermarkReadWrite == [](ReadsWhatIsStored) /\ [][UpdateWritesNow]_vars

\* C18 witness: update_last_run moved one user's watermark to the last tick
\* while the other user's stayed at the first.
C18_Witness ==
    /\ hist.direct > 0
    /\ now = MaxClock
    /\ get_last_run(runs_table, "u1", "steps") = isoformat(MaxClock)
    /\ get_last_run(runs_table, "u2", "steps") = isoformat(1)
    /\ get_last_run(runs_table, "u1", "weather") = NoTime

\* C19: an invocation with metric "tasks" has every pair looked up as the
\* ClickUp integration, never as an unknown metric, and stores the points of
\* a pair under the metric types the points carry; an invocation without
\* metric runs "tasks" together with "steps" and "weather".
C19_TasksServedByClickUp ==
    Invoked =>
        /\ event.metric = "tasks" =>
              /\ \A k \in 1..Len(lookups) :
                    /\ lookups[k].outcome # "ValueError"
                    /\ ClassesUnder(lookups[k].registry, "tasks") = {ClickUp}
              /\ \A k \in 1..Len(hist.trace) :
                    \A c \in 1..Len(hist.trace[k].calls) :
                        LET call == hist.trace[k].calls[c]
                        IN  call.op = "store_metrics" =>
                                \A q \in 1..Len(call.points) :
                                    call.points[q].metric_type = call.metric_type
        /\ ~Truthy(event.metric) =>
              {"steps", "weather", "tasks"} \subseteq Range(metrics_to_run)

\* Instant a is not after instant b (both in UTC).
NotAfter(a, b) ==
    \/ a.date < b.date
    \/ a.date = b.date /\ a.tod < b.tod
    \/ a.date = b.date /\ a.tod = b.tod /\ a.us <= b.us

\* Window w2 covers window w1, as instants and as calendar days.
Covers(w2, w1) ==
    NotAfter(w2.start_date, w1.start_date) /\ NotAfter(w1.end_date, w2.end_date)

CoversDays(w2, w1) ==
    w2.start_date.date <= w1.start_date.date /\ w1.end_date.date <= w2.end_date.date

\* The record keys a run's points are stored under.
KeysOf(run) ==
    {metric_date(run.data_points[k].date, "weather") : k \in 1..Len(run.data_points)}

\* Run j stored its points and stopped before update_last_run, and the pair
\* has been run again since.
Interrupted(j) == j < Len(recovery) /\ recovery[j].stopped

\* What one uninterrupted run, made at the instant of run j + 1 on the
\* tables run j found, leaves in the metrics table.
Uninterrupted(j) ==
    automatic_run(recovery[j].table_before, recovery[j].runs_before, "u1", "weather",
                  recovery[j + 1].at, FALSE).table_after

\* The run after the interrupted run j refetches what run j had fetched and
\* ends where an uninterrupted run ends.
Redone(j) ==
    /\ KeysOf(recovery[j]) \subseteq KeysOf(recovery[j + 1])
    /\ WithoutTimestamps(recovery[j + 1].table_after) = WithoutTimestamps(Uninterrupted(j))

\* No two records of the metrics table share their key.
NoDuplicates ==
    \A a, b \in metrics_table :
        (a.user_id = b.user_id /\ a.metric_date = b.metric_date) => a = b

C17_FirstRunWitness ==
    \E j \in 1..Len(recovery) :
        /\ Interrupted(j)
        /\ recovery[j].last_run = NoTime
        /\ datetime_now(recovery[j + 1].at).date > datetime_now(recovery[j].at).date

\* The duration of a sub-event, in milliseconds.
SpanMs(task) == task.date_done - task.start_date

RECURSIVE SumSpans(_)
SumSpans(tasks) == IF tasks = <<>> THEN 0 ELSE SpanMs(Head(tasks)) + SumSpans(Tail(tasks))

\* The last call split an event that starts before it ends.
SplitForward == split.called /\ split.task.start_date < split.task.date_done

\* C21: an event with start < end on different UTC days is split into one
\* sub-event per calendar day from the start's day to the end's day; every
\* sub-event but the last ends at 23:59:59.999 of its day, every sub-event
\* but the first starts at 00:00:00 of its day, and the durations of the
\* sub-events sum to end - start; an event within one day comes back
\* unchanged.
C21_DaySplit ==
    SplitForward =>
        LET task == split.task
            subs == split.result
            days == date_of(task.date_done) - date_of(task.start_date)
        IN  IF days = 0 THEN subs = <<task>>
            ELSE /\ Len(subs) = days + 1
                 /\ \A k \in 1..Len(subs) :
                       date_of(subs[k].start_date) = date_of(task.start_date) + k - 1
                 /\ \A k \in 1..(Len(subs) - 1) :
                       subs[k].date_done = at_ms(date_of(subs[k].start_date), 23, 59, 59, 999)
                 /\ \A k \in 2..Len(subs) :
                       subs[k].start_date = date_of(subs[k].start_date) * MsPerDay
                 /\ SumSpans(subs) = SpanMs(task)

\* C21, with the sum as the day ends leave it: an event with start < end on
\* different UTC days is split into one sub-event per calendar day from the
\* start's day to the end's day; every sub-event but the last ends at
\* 23:59:59.999 of its day, every sub-event but the first starts at 00:00:00
\* of its day, and the durations of the sub-events sum to end - start less
\* one millisecond for each midnight between them; an event within one day
\* comes back unchanged.
C21_DaySplitLosingMs ==
    SplitForward =>
        LET task == split.task
            subs == split.result
            days == date_of(task.date_done) - date_of(task.start_date)
        IN  IF days = 0 THEN subs = <<task>>
            ELSE /\ Len(subs) = days + 1
                 /\ \A k \in 1..Len(subs) :
                       date_of(subs[k].start_date) = date_of(task.start_date) + k - 1
                 /\ \A k \in 1..(Len(subs) - 1) :
                       subs[k].date_done = at_ms(date_of(subs[k].start_date), 23, 59, 59, 999)
                 /\ \A k \in 2..Len(subs) :
                       subs[k].start_date = date_of(subs[k].start_date) * MsPerDay
                 /\ SumSpans(subs) = SpanMs(task) - days

\* An event running over two midnights was split.
C21_Witness ==
    /\ SplitForward
    /\ date_of(split.task.date_done) - date_of(split.task.start_date) = 2
    /\ Len(split.result) = 3

\* C30: an event with start < end is split into at least one sub-event;
\* every sub-event begins and ends on one UTC calendar day, consecutive
\* sub-events do not overlap, and every sub-event lasts longer than nothing,
\* also when the event ends exactly at a UTC midnight.
C30_SplitClipped ==
    SplitForward =>
        LET subs == split.result
        IN  /\ Len(subs) >= 1
            /\ \A k \in 1..Len(subs) :
                  /\ date_of(subs[k].start_date) = date_of(subs[k].date_done)
                  /\ subs[k].start_date < subs[k].date_done
            /\ \A k \in 1..(Len(subs) - 1) : subs[k].date_done < subs[k + 1].start_date

\* The sub-events the last fetch_data call kept: those of the tasks with both
\* timestamps whose start is inside the window.
KeptSubEvents ==
    SelectSeq(sub_events(task_fetch.tasks),
              LAMBDA e : in_window(e, task_fetch.window.start_date,
                                   task_fetch.window.end_date))

\* The category of a sub-event: the name of its custom type, 'unknown' when
\* the instance has no name for it.
CategoryOf(e) ==
    IF e.custom_item_id \in DOMAIN task_fetch.custom_types
    THEN task_fetch.custom_types[e.custom_item_id]
    ELSE Unknown

\* The (date, category) groups of the kept sub-events.
TaskGroups ==
    {[date |-> task_date_str(KeptSubEvents[k].start_date),
      category |-> CategoryOf(KeptSubEvents[k])] : k \in 1..Len(KeptSubEvents)}

\* The kept sub-events of a group.
MembersOf(g) ==
    {k \in 1..Len(KeptSubEvents) :
        /\ task_date_str(KeptSubEvents[k].start_date) = g.date
        /\ CategoryOf(KeptSubEvents[k]) = g.category}

\* The exact duration of the sub-events numbered in S, in milliseconds.
RECURSIVE SumMs(_)
SumMs(S) ==
    IF S = {} THEN 0
    ELSE LET k == CHOOSE k \in S : TRUE
         IN  SpanMs(KeptSubEvents[k]) + SumMs(S \ {k})

GroupMs(g) == SumMs(MembersOf(g))

\* The tags of the group's sub-events.
GroupTags(g) == UNION {KeptSubEvents[k].tags : k \in MembersOf(g)}

\* A number of milliseconds in hundredths of an hour, to the nearest one.
NearestHundredth(ms) ==
    LET unit == MsPerHour \div 100
    IN  IF 2 * (ms % unit) >= unit THEN ms \div unit + 1 ELSE ms \div unit

\* The name of a category as a metric type: lowercased, spaces to underscores.
Normalised(category) ==
    [k \in 1..Len(category) |->
        IF category[k] = " " THEN "_"
        ELSE IF category[k] = "D" THEN "d"
        ELSE IF category[k] = "W" THEN "w"
        ELSE category[k]]

\* The tags of a data point are in ascending order, none twice.
TagsSorted(tags) ==
    \A a, b \in 1..Len(tags) :
        a < b => \E x, y \in 1..Len(TagNames) : x < y /\ TagNames[x] = tags[a] /\ TagNames[y] = tags[b]

\* C26: the hours of each (date, category) group are the sum of the exact
\* durations of the group's sub-events, rounded to two decimal places once,
\* after summing; sub-events whose category does not resolve are grouped
\* under 'unknown'; the tags of the group are the union of its sub-events'
\* tags, each once, in ascending order.
C26_HoursRoundedOnce ==
    task_fetch.called =>
        \A g \in TaskGroups :
            \E k \in 1..Len(task_fetch.data_points) :
                LET point == task_fetch.data_points[k]
                IN  /\ point.date = g.date
                    /\ point.metric_type = Normalised(g.category)
                    /\ point.value.hours = NearestHundredth(GroupMs(g))
                    /\ {point.value.tags[n] : n \in 1..Len(point.value.tags)} = GroupTags(g)
                    /\ TagsSorted(point.value.tags)

\* C27: every data point of the fetch carries a metric_type, which is the
\* name of its category lowercased with each space replaced by an
\* underscore, so no metric_type has an uppercase letter or a space; and
\* there is exactly one data point for each (date, category) group.
C27_MetricTypeNormalised ==
    task_fetch.called =>
        LET points == task_fetch.data_points
        IN  /\ \A k \in 1..Len(points) :
                  /\ points[k].metric_type # <<>>
                  /\ \A n \in 1..Len(points[k].metric_type) :
                        points[k].metric_type[n] \notin UpperCase \cup {" "}
                  /\ \E g \in TaskGroups :
                        /\ points[k].date = g.date
                        /\ points[k].metric_type = Normalised(g.category)
            /\ \A g \in TaskGroups :
                  \E k \in 1..Len(points) :
                      /\ points[k].date = g.date
                      /\ points[k].metric_type = Normalised(g.category)
            /\ Len(points) = Cardinality(TaskGroups)

\* A fetch returned the points of two groups, one of a category with an
\* uppercase letter and a space in its name.
C27_Witness ==
    /\ task_fetch.called
    /\ Len(task_fetch.data_points) >= 2
    /\ \E g \in TaskGroups : \E n \in 1..Len(g.category) : g.category[n] = " "
    /\ \E g \in TaskGroups : \E n \in 1..Len(g.category) : g.category[n] \in UpperCase

\* The data points of the last fetch have pairwise distinct (date,
\* metric_type) keys.
FetchKeysDistinct ==
    \A a, b \in 1..Len(task_fetch.data_points) :
        a # b => ~(/\ task_fetch.data_points[a].date = task_fetch.data_points[b].date
                   /\ task_fetch.data_points[a].metric_type =
                         task_fetch.data_points[b].metric_type)

\* The data points of the last fetch as the handler receives them, the
\* metric types as the strings the tables' keys are made of.
FetchedPoints ==
    [k \in 1..Len(task_fetch.data_points) |->
        [task_fetch.data_points[k] EXCEPT !.metric_type = str_of(@)]]

\* The count _store_dynamic_metrics reports for a list: the lengths of its
\* groups added up (line 25).
RECURSIVE CountOf(_)
CountOf(plan) == IF plan = <<>> THEN 0 ELSE Len(Head(plan).points) + CountOf(Tail(plan))

\* The record keys the points of a list are stored under.
RecordKeysOf(data_points) ==
    {metric_date(data_points[k].date, point_type(data_points[k], "tasks")) :
        k \in 1..Len(data_points)}

\* C23: the count a pair reports for a fetch is the number of data points
\* fetch_data returned, and each data point goes to a record of its own: the
\* data points of one fetch have pairwise distinct (date, metric_type) keys,
\* so the pair writes exactly count records.
C23_CountIsRecords ==
    (task_fetch.called /\ task_fetch.data_points # <<>>) =>
        /\ CountOf(store_plan(FetchedPoints, "tasks")) = Len(task_fetch.data_points)
        /\ FetchKeysDistinct
        /\ Cardinality(RecordKeysOf(FetchedPoints)) =
              CountOf(store_plan(FetchedPoints, "tasks"))

\* The failures a read request is to be retried on: a connection failure, a
\* 429 or a 5xx response.
Transient == {"connection", "429", "500", "501"}

\* The attempt at which a request that is retried up to 3 times on transient
\* failures ends: the first answer that is not a transient failure, or the
\* fourth attempt.
RECURSIVE EndsAt(_, _)
EndsAt(answers, k) ==
    IF k = 4 \/ answers[k] \notin Transient THEN k ELSE EndsAt(answers, k + 1)

\* C25: in every integration a read request that fails with a connection
\* failure or a 429/5xx response is retried up to 3 times before its error
\* surfaces, and an error that is not retriable propagates on the first
\* attempt, with no retry.
C25_BoundedRetry ==
    request.cls # None =>
        LET last == EndsAt(request.answers, 1)
        IN  /\ request.result.attempts = last
            /\ request.result.outcome =
                  (IF request.answers[last] = "ok" THEN "returned" ELSE "raised")

\* The metric type a point is stored under: its own, or the invoked metric
\* name when it has none.
TypeOf(point) == IF point.metric_type = Absent THEN fanout.metric ELSE point.metric_type

\* The points of the list that are stored under metric type mt, in list order.
PointsOfType(mt) == SelectSeq(fanout.data_points, LAMBDA point : TypeOf(point) = mt)

\* C22: for a non-empty fetch result, if at least one point carries a
\* metric_type, the points are partitioned by it (a point without one goes
\* with the invoked metric name) and store_metrics is called exactly once
\* for each group, with exactly the points of that group; otherwise
\* store_metrics is called exactly once, with the whole list, under the
\* invoked metric name.
C22_StorageFanOut ==
    fanout.called =>
        LET points == fanout.data_points
            calls  == fanout.calls
        IN  IF \E k \in 1..Len(points) : points[k].metric_type # Absent
            THEN /\ \A a, b \in 1..Len(calls) :
                       a # b => calls[a].metric_type # calls[b].metric_type
                 /\ {calls[k].metric_type : k \in 1..Len(calls)} =
                       {TypeOf(points[k]) : k \in 1..Len(points)}
                 /\ \A k \in 1..Len(calls) :
                       calls[k].points = PointsOfType(calls[k].metric_type)
            ELSE calls = << [metric_type |-> fanout.metric, points |-> points] >>

\* A list with a point that has a metric_type and a point that has none was
\* stored in two groups.
C22_Witness ==
    /\ fanout.called
    /\ Len(fanout.calls) = 2
    /\ \E k \in 1..Len(fanout.data_points) : fanout.data_points[k].metric_type = Absent
    /\ \E k \in 1..Len(fanout.data_points) : fanout.data_points[k].metric_type # Absent

\* A store call of the pair failed.
WriteFailedIn(e) == \E k \in 1..Len(e.calls) : ~e.calls[k].ok

\* C24: a failure of the store during a run surfaces as an error: a pair
\* whose watermark read fails ends in errors and is not processed as a first
\* run; a user listing that fails is not replaced by the default user; a
\* pair whose store_metrics or update_last_run fails ends in errors.
C24_StorageFailuresSurface ==
    /\ \A k \in 1..Len(hist.trace) :
          LET e == hist.trace[k]
          IN  /\ e.since.read_failed =>
                    /\ e.outcome = "error"
                    /\ ~e.fetch_returned
                    /\ e.calls = <<>>
              /\ WriteFailedIn(e) => e.outcome = "error"
    /\ (Invoked /\ ~Truthy(event.user_id) /\ hist.runs_start # {}) =>
          Range(users) \subseteq {i.user_id : i \in hist.runs_start}

\* The k-th pair of the product metrics_to_run x users in metric-major order.
PairAt(k) ==
    <<metrics_to_run[((k - 1) \div Len(users)) + 1],
      users[((k - 1) % Len(users)) + 1]>>

\* The number of pairs of the invocation.
PairCount == Len(metrics_to_run) * Len(users)

\* The loops over metrics and users are over.
LoopsOver == Returned \/ (pc = "loop" /\ mi > Len(metrics_to_run))

\* C28: in an invocation that reaches the per-pair processing the pairs
\* processed so far are the first pairs of metrics_to_run x users in
\* metric-major order, each processed once and each with exactly one entry in
\* exactly one of results and errors; when the loops are over every pair of
\* the product has been processed, so that total_processed + total_errors is
\* the number of metrics times the number of users.
C28_OneEntryPerPair ==
    Invoked =>
        /\ Len(hist.trace) <= PairCount
        /\ \A k \in 1..Len(hist.trace) :
              LET e == hist.trace[k]
                  in_results == EntriesOf(results, e.user_id, e.metric)
                  in_errors == EntriesOf(errors, e.user_id, e.metric)
              IN  /\ <<e.metric, e.user_id>> = PairAt(k)
                  /\ \A j \in 1..Len(hist.trace) :
                        (hist.trace[j].metric = e.metric
                            /\ hist.trace[j].user_id = e.user_id) => j = k
                  /\ Cardinality(in_results) + Cardinality(in_errors) = 1
                  /\ (e.outcome = "error") <=> (in_errors # {})
        /\ Len(results) + Len(errors) = Len(hist.trace)
        /\ LoopsOver => Len(results) + Len(errors) = PairCount
        /\ (Returned /\ response.statusCode \in {200, 207}) =>
              response.body.total_processed + response.body.total_errors = PairCount

\* An invocation over two metrics and two users has returned, the second
\* pair in errors and the three others in results.
C28_Witness ==
    /\ Returned
    /\ response.statusCode = 207
    /\ Len(metrics_to_run) = 2
    /\ Len(users) = 2
    /\ Len(hist.trace) = 4
    /\ hist.trace[2].outcome = "error"
    /\ hist.trace[3].outcome = "success"
    /\ response.body.total_processed = 3
    /\ response.body.total_errors = 1

\* The metric type a fetched point of the pair is stored under.
StoredTypeOf(e, point) ==
    IF point.metric_type = Absent THEN e.metric ELSE point.metric_type

\* The fetched points of the pair that belong to the group of type mt.
GroupOf(e, mt) == SelectSeq(e.fetched, LAMBDA point : StoredTypeOf(e, point) = mt)

\* The pair's points are stored as several metric_type groups.
SeveralGroups(e) ==
    /\ \E k \in 1..Len(e.fetched) : e.fetched[k].metric_type # Absent
    /\ Cardinality({StoredTypeOf(e, e.fetched[k]) : k \in 1..Len(e.fetched)}) > 1

\* The store_metrics calls of the pair that failed.
FailedStores(e) ==
    {k \in 1..Len(e.calls) : e.calls[k].op = "store_metrics" /\ ~e.calls[k].ok}

\* The store holds the record of a point of the pair under metric type mt.
Holds(table, e, mt, point) ==
    \E r \in table : /\ r.user_id = e.user_id
                     /\ r.metric_type = mt
                     /\ r.date = point.date
                     /\ r.value = point.value

\* C29: in a pair whose points are stored as several metric_type groups and
\* in which store_metrics fails for one group, the calls made are one per
\* group up to the failing one, each with the points of its group; the
\* records of the groups stored before the failing one are in the store when
\* the pair ends; nothing of a later group is stored and no call follows the
\* failing one; the pair's watermark is as it was; and the pair has its one
\* entry in errors and none in results.
C29_PartialFanOutFailure ==
    \A n \in 1..Len(hist.trace) :
        LET e == hist.trace[n]
            calls == e.calls
        IN  (SeveralGroups(e) /\ FailedStores(e) # {}) =>
               /\ FailedStores(e) = {Len(calls)}
               /\ \A j \in 1..Len(calls) :
                     /\ calls[j].op = "store_metrics"
                     /\ calls[j].points # <<>>
                     /\ calls[j].points = GroupOf(e, calls[j].metric_type)
                     /\ \A i \in 1..Len(calls) :
                           calls[i].metric_type = calls[j].metric_type => i = j
               /\ \A j \in 1..(Len(calls) - 1) :
                     \A k \in 1..Len(calls[j].points) :
                        Holds(e.table_after, e, calls[j].metric_type, calls[j].points[k])
               /\ \A r \in e.table_after \ e.table_before :
                     /\ r.user_id = e.user_id
                     /\ \E j \in 1..Len(calls) : r.metric_type = calls[j].metric_type
               /\ e.runs_after = e.runs_before
               /\ e.outcome = "error"
               /\ Cardinality(EntriesOf(errors, e.user_id, e.metric)) = 1
               /\ EntriesOf(results, e.user_id, e.metric) = {}

\* A pair of two groups whose second store_metrics call failed: the record
\* of the first group is new in the store.
C29_Witness ==
    \E n \in 1..Len(hist.trace) :
        LET e == hist.trace[n]
        IN  /\ SeveralGroups(e)
            /\ Len(e.calls) = 2
            /\ e.calls[1].ok
            /\ FailedStores(e) = {2}
            /\ \E r \in e.table_after \ e.table_before :
                  r.metric_type = e.calls[1].metric_type
            /\ \A r \in e.table_after \ e.table_before :
                  r.metric_type # e.calls[2].metric_type

\* A pair of two groups whose first store_metrics call failed: the second
\* group was not stored.
C29_LaterGroupWitness ==
    \E n \in 1..Len(hist.trace) :
        LET e == hist.trace[n]
        IN  /\ SeveralGroups(e)
            /\ Len(e.calls) = 1
            /\ FailedStores(e) = {1}
            /\ Len(e.fetched) = 2
            /\ e.table_after = e.table_before

====
